---- MODULE Spec2Model ----
(***************************************************************************)
(* Batch normalisation on the CPU (aten/src/ATen/native/Normalization.cpp): *)
(* the backend selector _batch_norm_impl_index and its backward, the        *)
(* statistics reducer, the transform applier with its contiguous fast path, *)
(* and the backward engine.                                                 *)
(*                                                                          *)
(* Scalars.  The element types of the source are float and double.  The     *)
(* model computes in exact arithmetic over the numbers (a + b*sqrt(d)) / q  *)
(* with a, b, q integers, q > 0, d a squarefree integer >= 1, extended with *)
(* the IEEE special values NaN, +Inf and -Inf that the source produces on a *)
(* division by zero.  Rounding is not modelled.  A scalar is the tuple      *)
(* <<a, b, q, d>>; q = 0 marks a special value.                             *)
(***************************************************************************)
EXTENDS Integers, Sequences, FiniteSets, TLC

\* ------------------------------------------------------------------------
\* Bounds of the model
\* ------------------------------------------------------------------------
MaxBatch == 2
MaxFeat == 2
MaxImage == 2
MaxVal == 1
MaxNumel == 4
MaxCalls == 2

\* ------------------------------------------------------------------------
\* Scalar arithmetic
\* ------------------------------------------------------------------------
NaN == <<0, 0, 0, 1>>
PInf == <<1, 0, 0, 1>>
NInf == <<-1, 0, 0, 1>>

\* a value outside the number system of the model: evaluating it stops TLC
Unrepresentable == CHOOSE v \in {} : TRUE

\* the content of memory that was allocated and never written
Uninit == <<0, 0, 0, 0>>

AbsI(n) == IF n < 0 THEN -n ELSE n
SgnI(n) == IF n < 0 THEN -1 ELSE IF n = 0 THEN 0 ELSE 1

RECURSIVE GCD(_, _)
GCD(m, n) == IF n = 0 THEN m ELSE GCD(n, m % n)

\* (a + b*sqrt(d)) / q in canonical form; q may be negative, never 0.
Norm(a, b, q, d) ==
  LET s  == IF q < 0 THEN -1 ELSE 1
      g  == GCD(GCD(AbsI(a), AbsI(b)), AbsI(q))
  IN  << (s * a) \div g, (s * b) \div g, (s * q) \div g, IF b = 0 THEN 1 ELSE d >>

R(n) == <<n, 0, 1, 1>>
Q(n, m) == Norm(n, 0, m, 1)

IsFin(x) == x[3] # 0
IsNaN(x) == x = NaN
IsRat(x) == IsFin(x) /\ x[2] = 0

\* sign of a scalar (-1, 0, 1); NaN has sign 0
Sign(x) ==
  IF ~IsFin(x) THEN x[1]
  ELSE LET sa == SgnI(x[1])
           sb == SgnI(x[2])
       IN  IF sb = 0 THEN sa
           ELSE IF sa = 0 \/ sa = sb THEN sb
           ELSE IF x[1] * x[1] > x[2] * x[2] * x[4] THEN sa ELSE sb

Neg(x) == IF IsFin(x) THEN <<-x[1], -x[2], x[3], x[4]>> ELSE <<-x[1], 0, 0, 1>>

\* the radicand shared by two finite scalars (0: they have different radicands)
CommonD(x, y) ==
  IF x[2] = 0 THEN y[4]
  ELSE IF y[2] = 0 \/ x[4] = y[4] THEN x[4] ELSE 0

Add(x, y) ==
  IF IsNaN(x) \/ IsNaN(y) THEN NaN
  ELSE IF ~IsFin(x) THEN (IF ~IsFin(y) /\ x # y THEN NaN ELSE x)
  ELSE IF ~IsFin(y) THEN y
  ELSE IF CommonD(x, y) = 0 THEN Unrepresentable
  ELSE Norm(x[1] * y[3] + y[1] * x[3], x[2] * y[3] + y[2] * x[3],
            x[3] * y[3], CommonD(x, y))

Sub(x, y) == Add(x, Neg(y))

Mul(x, y) ==
  IF IsNaN(x) \/ IsNaN(y) THEN NaN
  ELSE IF ~IsFin(x) \/ ~IsFin(y)
       THEN (IF Sign(x) * Sign(y) = 0 THEN NaN
             ELSE IF Sign(x) * Sign(y) > 0 THEN PInf ELSE NInf)
  ELSE IF CommonD(x, y) = 0 THEN Unrepresentable
  ELSE Norm(x[1] * y[1] + x[2] * y[2] * CommonD(x, y),
            x[1] * y[2] + x[2] * y[1],
            x[3] * y[3], CommonD(x, y))

\* x / y for a rational or special divisor y
Div(x, y) ==
  IF IsNaN(x) \/ IsNaN(y) THEN NaN
  ELSE IF ~IsFin(y) THEN (IF IsFin(x) THEN R(0) ELSE NaN)
  ELSE IF y[1] = 0
       THEN (IF Sign(x) = 0 THEN NaN ELSE IF Sign(x) > 0 THEN PInf ELSE NInf)
  ELSE Mul(x, Norm(y[3], 0, y[1], 1))

\* m = k*k*d with d squarefree: <<k, d>>
RECURSIVE SquarePart(_, _, _)
SquarePart(m, k, acc) ==
  IF k * k > m THEN <<acc, m>>
  ELSE IF m % (k * k) = 0 THEN SquarePart(m \div (k * k), k, acc * k)
  ELSE SquarePart(m, k + 1, acc)

\* 1 / std::sqrt(x) for a rational or special x
InvSqrt(x) ==
  IF IsNaN(x) THEN NaN
  ELSE IF ~IsFin(x) THEN (IF x = PInf THEN R(0) ELSE NaN)
  ELSE IF x[2] # 0 THEN Unrepresentable
  ELSE IF x[1] < 0 THEN NaN
  ELSE IF x[1] = 0 THEN PInf
  ELSE LET kd == SquarePart(x[1] * x[3], 2, 1)
       IN  IF kd[2] = 1 THEN Norm(x[3], 0, kd[1], 1)
           ELSE Norm(0, x[3], kd[1] * kd[2], kd[2])


\* the function f on 1..n as an array: its elements are computed once
Array(f) == f \o <<>>

Sum(s) ==
  LET RECURSIVE Go(_)
      Go(k) == IF k = 0 THEN R(0) ELSE Add(Go(k - 1), s[k])
  IN  Go(Len(s))

\* ------------------------------------------------------------------------
\* Tensors
\*   a 1-D tensor is [defined, contig, numel, data]; an undefined Tensor is
\*   Undefined.  The input is [sizes |-> <<N, C, L>>, dim, contig, data] with
\*   data[n][c][i], L the product of the trailing extents.  Device memory is
\*   not modelled: the tensors of a CUDA call carry data = <<>>.
\* ------------------------------------------------------------------------
Undefined == [defined |-> FALSE, contig |-> TRUE, numel |-> 0, data |-> <<>>]

Vec(d, c) == [defined |-> TRUE, contig |-> c, numel |-> Len(d), data |-> d]

\* input.select(1, f), in the order CPU_tensor_apply visits it
select(t, f) ==
  Array([k \in 1..(t.sizes[1] * t.sizes[3]) |->
     t.data[((k - 1) \div t.sizes[3]) + 1][f][((k - 1) % t.sizes[3]) + 1]])

\* a tensor of extents <<N, C, L>> from its feature planes plane[f][k]
from_planes(sizes, plane) ==
  Array([n \in 1..sizes[1] |-> Array([c \in 1..sizes[2] |-> Array([i \in 1..sizes[3] |->
     plane[c][(n - 1) * sizes[3] + i]])])])

\* conditional_accessor_1d: the element f of t.  The accessor of an undefined
\* tensor points at no data; the checks of _batch_norm_impl_index keep every
\* read away from it, and the model reads it as memory never written
conditional_accessor_1d(t, f) == IF t.defined THEN t.data[f] ELSE Uninit

\* ------------------------------------------------------------------------
\* VarTransform
\* ------------------------------------------------------------------------
InvStd(var, epsilon) ==
  IF var # R(0) \/ epsilon # R(0) THEN InvSqrt(Add(var, epsilon)) ELSE R(0)

Var(var, epsilon) == var

VarTransform(kind, var, epsilon) ==
  IF kind = "InvStd" THEN InvStd(var, epsilon) ELSE Var(var, epsilon)

\* ------------------------------------------------------------------------
\* batch_norm_cpu_update_stats_template
\* ------------------------------------------------------------------------
\* the elements reduced per feature: input.numel() / n_input
reduce_count(input) == input.sizes[1] * input.sizes[3]

\* sum / n of one feature plane
feature_mean(in, n) == Div(Sum(in), R(n))

\* the sum of the squares of one feature plane, the mean not subtracted
feature_square_sum(in, mean) ==
  Sum(Array([k \in 1..Len(in) |-> Mul(in[k], in[k])]))

\* the sum of the squared deviations of one feature plane from mean
feature_var_sum(in, mean) ==
  Sum(Array([k \in 1..Len(in) |-> Mul(Sub(in[k], mean), Sub(in[k], mean))]))

\* momentum * estimate + (1 - momentum) * running
running_update(momentum, estimate, running) ==
  Add(Mul(momentum, estimate), Mul(Sub(R(1), momentum), running))

\* the biased variance in the place of the unbiased one
biased_var(var_sum, n) == Div(var_sum, R(n))

\* the unbiased variance folded into running_var
unbiased_var(var_sum, n) == Div(var_sum, R(n - 1))

\* the loop body for feature f: what it stores in save_mean[f],
\* save_var_transform[f], running_mean[f] and running_var[f]
update_stats_feature(kind, input, running_mean, running_var, momentum, eps, f) ==
  LET in      == select(input, f)
      n       == reduce_count(input)
      mean    == feature_mean(in, n)
      var_sum == feature_var_sum(in, mean)
  IN  [ mean |-> mean,
        var_transform |-> VarTransform(kind, Div(var_sum, R(n)), eps),
        running_mean |->
          IF running_mean.defined
          THEN running_update(momentum, mean, conditional_accessor_1d(running_mean, f))
          ELSE Uninit,
        running_var |->
          IF running_var.defined
          THEN running_update(momentum, unbiased_var(var_sum, n),
                              conditional_accessor_1d(running_var, f))
          ELSE Uninit ]

\* the whole call from the results r[f] of the loop body: the two tensors it
\* returns and the running state it leaves
update_stats_result(r, n_input, running_mean, running_var) ==
  [ save_mean |-> Vec(Array([f \in 1..n_input |-> r[f].mean]), TRUE),
    save_var_transform |-> Vec(Array([f \in 1..n_input |-> r[f].var_transform]), TRUE),
    running_mean |->
      IF running_mean.defined
      THEN [running_mean EXCEPT !.data = Array([f \in 1..n_input |-> r[f].running_mean])]
      ELSE running_mean,
    running_var |->
      IF running_var.defined
      THEN [running_var EXCEPT !.data = Array([f \in 1..n_input |-> r[f].running_var])]
      ELSE running_var ]

batch_norm_cpu_update_stats_template(kind, input, running_mean, running_var, momentum, eps) ==
  update_stats_result(
    Array([f \in 1..input.sizes[2] |->
       update_stats_feature(kind, input, running_mean, running_var, momentum, eps, f)]),
    input.sizes[2], running_mean, running_var)

\* ------------------------------------------------------------------------
\* batch_norm_cpu_inference_contiguous (the fast path)
\* ------------------------------------------------------------------------
NoTensor == [defined |-> FALSE, sizes |-> <<>>, data |-> <<>>]

\* the element of a contiguous tensor at memory offset k (0-based)
contiguous_data(t, k) ==
  t.data[(k \div (t.sizes[2] * t.sizes[3])) + 1]
        [((k \div t.sizes[3]) % t.sizes[2]) + 1]
        [(k % t.sizes[3]) + 1]

\* the offset the loops compute for (n, c, i), all 0-based
fast_offset(input, n, c, i) ==
  LET n_channel  == input.sizes[2]
      image_size == input.sizes[3]
  IN  IF image_size # 1 THEN n * n_channel * image_size + c * image_size + i
      ELSE n * n_channel + c

\* the iterations of the loops that write offset k
fast_writers(input, k) ==
  { t \in (0..(input.sizes[1] - 1)) \X (0..(input.sizes[2] - 1)) \X (0..(input.sizes[3] - 1)) :
      fast_offset(input, t[1], t[2], t[3]) = k }

\* alpha with an absent weight read as 0
fast_alpha_absent_as_zero(weight, variance, eps, c) ==
  LET inv_var  == InvSqrt(Add(conditional_accessor_1d(variance, c), eps))
      weight_v == IF weight.defined THEN weight.data[c] ELSE R(0)
  IN  Mul(inv_var, weight_v)

fast_alpha(weight, variance, eps, c) ==
  LET inv_var  == InvSqrt(Add(conditional_accessor_1d(variance, c), eps))
      weight_v == IF weight.defined THEN weight.data[c] ELSE R(1)
  IN  Mul(inv_var, weight_v)

\* beta without the weight: bias - mean * inv_var
fast_beta_without_weight(weight, bias, mean, variance, eps, c) ==
  LET inv_var  == InvSqrt(Add(conditional_accessor_1d(variance, c), eps))
      bias_v   == IF bias.defined THEN bias.data[c] ELSE R(0)
  IN  Sub(bias_v, Mul(conditional_accessor_1d(mean, c), inv_var))

fast_beta(weight, bias, mean, variance, eps, c) ==
  LET inv_var  == InvSqrt(Add(conditional_accessor_1d(variance, c), eps))
      weight_v == IF weight.defined THEN weight.data[c] ELSE R(1)
      bias_v   == IF bias.defined THEN bias.data[c] ELSE R(0)
  IN  Sub(bias_v, Mul(Mul(conditional_accessor_1d(mean, c), inv_var), weight_v))

\* output_data after the loops, by memory offset + 1
fast_output_data(input, weight, bias, mean, variance, eps) ==
  Array([k1 \in 1..(input.sizes[1] * input.sizes[2] * input.sizes[3]) |->
     LET ws == fast_writers(input, k1 - 1)
     IN  IF ws = {} THEN Uninit
         ELSE LET t == CHOOSE u \in ws : TRUE
              IN  Add(Mul(contiguous_data(input, k1 - 1),
                          fast_alpha(weight, variance, eps, t[2] + 1)),
                      fast_beta(weight, bias, mean, variance, eps, t[2] + 1))])

batch_norm_cpu_inference_contiguous(input, weight, bias, mean, variance, eps) ==
  LET od == fast_output_data(input, weight, bias, mean, variance, eps)
  IN  [ defined |-> TRUE, sizes |-> input.sizes,
        data |-> Array([n \in 1..input.sizes[1] |-> Array([c \in 1..input.sizes[2] |->
                   Array([i \in 1..input.sizes[3] |->
                      od[(n - 1) * input.sizes[2] * input.sizes[3]
                         + (c - 1) * input.sizes[3] + (i - 1) + 1]])])]) ]

\* ------------------------------------------------------------------------
\* batch_norm_cpu_transform_input_template
\* ------------------------------------------------------------------------
use_fast_path(input, weight, bias, running_mean, running_var, train) ==
  /\ ~train
  /\ input.contig
  /\ (~weight.defined \/ weight.contig)
  /\ (~bias.defined \/ bias.contig)
  /\ running_mean.contig
  /\ running_var.contig

\* the mean of the running state read in both modes
transform_mean_running(train, save_mean, running_mean, f) ==
  conditional_accessor_1d(running_mean, f)

\* the mean the general path normalises feature f with: the saved one in
\* training mode, the running one in inference mode
transform_mean(train, save_mean, running_mean, f) ==
  IF train THEN conditional_accessor_1d(save_mean, f)
  ELSE conditional_accessor_1d(running_mean, f)

\* the inverse standard deviation the general path normalises feature f with
transform_invstd(train, save_invstd, running_var, eps, f) ==
  IF train THEN conditional_accessor_1d(save_invstd, f)
  ELSE InvSqrt(Add(conditional_accessor_1d(running_var, f), eps))

\* the loop body of the general path for feature f: the plane output.select(1, f)
transform_feature(input, weight, bias, save_mean, save_invstd, running_mean, running_var, train, eps, f) ==
  LET in     == select(input, f)
      mean   == transform_mean(train, save_mean, running_mean, f)
      invstd == transform_invstd(train, save_invstd, running_var, eps, f)
      w      == IF weight.defined THEN weight.data[f] ELSE R(1)
      b      == IF bias.defined THEN bias.data[f] ELSE R(0)
  IN  Array([k \in 1..Len(in) |-> Add(Mul(Mul(Sub(in[k], mean), invstd), w), b)])

general_path(input, weight, bias, save_mean, save_invstd, running_mean, running_var, train, eps) ==
  [ defined |-> TRUE, sizes |-> input.sizes,
    data |-> from_planes(input.sizes,
               Array([f \in 1..input.sizes[2] |->
                  transform_feature(input, weight, bias, save_mean, save_invstd,
                                    running_mean, running_var, train, eps, f)])) ]

batch_norm_cpu_transform_input_template(input, weight, bias, save_mean, save_invstd, running_mean, running_var, train, eps) ==
  IF use_fast_path(input, weight, bias, running_mean, running_var, train)
  THEN [ output |-> batch_norm_cpu_inference_contiguous(input, weight, bias,
                                                        running_mean, running_var, eps),
         save_mean |-> save_mean, save_invstd |-> save_invstd, path |-> "fast" ]
  ELSE [ output |-> general_path(input, weight, bias, save_mean, save_invstd,
                                 running_mean, running_var, train, eps),
         save_mean |-> save_mean, save_invstd |-> save_invstd, path |-> "general" ]

\* ------------------------------------------------------------------------
\* batch_norm_cpu
\* ------------------------------------------------------------------------
\* what a forward call on the CPU hands back: the tuple t of the transform
\* applier, and the running state as the call leaves it
forward_result(t, running_mean, running_var) ==
  [ output |-> t.output, save_mean |-> t.save_mean, save_invstd |-> t.save_invstd,
    path |-> t.path, running_mean |-> running_mean, running_var |-> running_var ]

\* the training branch, save_stats being what the reducer returned and left
batch_norm_cpu_with_stats(self, weight, bias, save_stats, train, eps) ==
  forward_result(
    batch_norm_cpu_transform_input_template(self, weight, bias,
      save_stats.save_mean, save_stats.save_var_transform,
      save_stats.running_mean, save_stats.running_var, train, eps),
    save_stats.running_mean, save_stats.running_var)

\* batch_norm_cpu without its mode test: the statistics are reduced and the
\* running state is updated in both modes
batch_norm_cpu_always_updating(self, weight, bias, running_mean, running_var, train, momentum, eps) ==
  batch_norm_cpu_with_stats(self, weight, bias,
    batch_norm_cpu_update_stats_template("InvStd", self, running_mean, running_var,
                                         momentum, eps),
    train, eps)

batch_norm_cpu(self, weight, bias, running_mean, running_var, train, momentum, eps) ==
  IF ~train
  THEN forward_result(
         batch_norm_cpu_transform_input_template(self, weight, bias, Undefined, Undefined,
                                                 running_mean, running_var, train, eps),
         running_mean, running_var)
  ELSE batch_norm_cpu_with_stats(self, weight, bias,
         batch_norm_cpu_update_stats_template("InvStd", self, running_mean, running_var,
                                              momentum, eps),
         train, eps)

\* ------------------------------------------------------------------------
\* batch_norm_backward_cpu_template
\* ------------------------------------------------------------------------
\* the mean the loop body reads for feature f: the saved one in training mode,
\* the running one in inference mode
backward_mean(train, save_mean, running_mean, f) ==
  IF train THEN conditional_accessor_1d(save_mean, f)
  ELSE conditional_accessor_1d(running_mean, f)

\* the inverse standard deviation the loop body reads for feature f
backward_invstd(train, save_invstd, running_var, eps, f) ==
  IF train THEN conditional_accessor_1d(save_invstd, f)
  ELSE InvSqrt(Add(conditional_accessor_1d(running_var, f), eps))

\* dotp: the dot product of the centred input and grad_out over the plane
feature_dotp(in, grad_out, mean) ==
  Sum(Array([j \in 1..Len(in) |-> Mul(Sub(in[j], mean), grad_out[j])]))

\* the first pass over grad_in in training mode: gi = (i - mean) * k
grad_in_projection(in, mean, k) ==
  Array([j \in 1..Len(in) |-> Mul(Sub(in[j], mean), k)])

\* the second pass left out: grad_in keeps what the first pass stored
grad_in_train_first_pass_kept(grad_out, grad_mean, gi, invstd, w) == gi

\* the second pass: gi = (go - grad_mean - gi) * invstd * w
grad_in_train(grad_out, grad_mean, gi, invstd, w) ==
  Array([j \in 1..Len(gi) |->
     Mul(Mul(Sub(Sub(grad_out[j], grad_mean), gi[j]), invstd), w)])

\* the inference gradient with the training correction applied
grad_in_eval_corrected(grad_out, invstd, w) ==
  Array([j \in 1..Len(grad_out) |->
     Mul(Mul(Sub(grad_out[j], Div(Sum(grad_out), R(Len(grad_out)))), invstd), w)])

\* the pass over grad_in in inference mode: gi = go * invstd * w
grad_in_eval(grad_out, invstd, w) ==
  Array([j \in 1..Len(grad_out) |-> Mul(Mul(grad_out[j], invstd), w)])

\* grad_weight[f] scaled by the weight
feature_grad_weight_scaled(dotp, invstd, w) == Mul(Mul(dotp, invstd), w)

\* grad_weight_a[f] = dotp * invstd
feature_grad_weight(dotp, invstd, w) == Mul(dotp, invstd)

\* the loop body for feature f: the plane grad_input.select(1, f) and the
\* elements grad_weight[f] and grad_bias[f]
backward_feature(grad_out_, input, weight, running_mean, running_var, save_mean, save_invstd, train, eps, f) ==
  LET in       == select(input, f)
      grad_out == select(grad_out_, f)
      n        == reduce_count(input)
      w        == IF weight.defined THEN conditional_accessor_1d(weight, f) ELSE R(1)
      mean     == backward_mean(train, save_mean, running_mean, f)
      invstd   == backward_invstd(train, save_invstd, running_var, eps, f)
      sum      == Sum(grad_out)
      dotp     == feature_dotp(in, grad_out, mean)
      k        == Div(Mul(Mul(dotp, invstd), invstd), R(n))
      grad_mean == Div(sum, R(n))
  IN  [ grad_in |->
          IF train
          THEN grad_in_train(grad_out, grad_mean, grad_in_projection(in, mean, k), invstd, w)
          ELSE grad_in_eval(grad_out, invstd, w),
        grad_weight |-> feature_grad_weight(dotp, invstd, w),
        grad_bias |-> sum ]

\* at::empty_like(weight) of an undefined weight raises an error
empty_like_fails(weight, grad_input_mask) ==
  ~weight.defined /\ (grad_input_mask[2] \/ grad_input_mask[3])

\* the three gradients from the results r[f] of the loop body
backward_result(r, input, weight, grad_input_mask) ==
  IF empty_like_fails(weight, grad_input_mask)
  THEN [ status |-> "undefined_tensor", grad_input |-> NoTensor,
         grad_weight |-> Undefined, grad_bias |-> Undefined ]
  ELSE [ status |-> "ok",
         grad_input |->
           IF grad_input_mask[1]
           THEN [ defined |-> TRUE, sizes |-> input.sizes,
                  data |-> from_planes(input.sizes,
                             Array([f \in 1..input.sizes[2] |-> r[f].grad_in])) ]
           ELSE NoTensor,
         grad_weight |->
           IF grad_input_mask[2]
           THEN Vec(Array([f \in 1..input.sizes[2] |-> r[f].grad_weight]), TRUE)
           ELSE Undefined,
         grad_bias |->
           IF grad_input_mask[3]
           THEN Vec(Array([f \in 1..input.sizes[2] |-> r[f].grad_bias]), TRUE)
           ELSE Undefined ]

batch_norm_backward_cpu_template(grad_out_, input, weight, running_mean, running_var, save_mean, save_invstd, train, eps, grad_input_mask) ==
  backward_result(
    Array([f \in 1..input.sizes[2] |->
       backward_feature(grad_out_, input, weight, running_mean, running_var,
                        save_mean, save_invstd, train, eps, f)]),
    input, weight, grad_input_mask)

\* ------------------------------------------------------------------------
\* _batch_norm_impl_index: the backend selector
\*   env holds what the selector reads beside the tensors: the device and the
\*   element types, and what detail::getCUDAHooks() answers.
\* ------------------------------------------------------------------------
MIOPEN_DIM_MAX == 4
MaxCuDNNBatch == 131070
MinCuDNNVersion == 5110

\* the result of a kernel that runs on the device
Opaque(sizes) == [defined |-> TRUE, sizes |-> sizes, data |-> <<>>]
OpaqueVec(n) == [defined |-> TRUE, contig |-> TRUE, numel |-> n, data |-> <<>>]

\* x >= y for finite scalars
Geq(x, y) == Sign(Sub(x, y)) >= 0

check_dims_match_num_input_features(expected, actual) == actual = expected

\* the checks without the two tests of the mode: an undefined running tensor
\* passes in inference mode as it does in training mode
first_check_failure_any_mode(input, weight, bias, running_mean, running_var, training) ==
  LET num_features == input.sizes[2]
  IN  IF running_mean.defined
         /\ ~check_dims_match_num_input_features(num_features, running_mean.numel)
      THEN [status |-> "dims_mismatch", arg |-> "running_mean"]
      ELSE IF running_var.defined
              /\ ~check_dims_match_num_input_features(num_features, running_var.numel)
      THEN [status |-> "dims_mismatch", arg |-> "running_var"]
      ELSE IF weight.defined
              /\ ~check_dims_match_num_input_features(num_features, weight.numel)
      THEN [status |-> "dims_mismatch", arg |-> "weight"]
      ELSE IF bias.defined
              /\ ~check_dims_match_num_input_features(num_features, bias.numel)
      THEN [status |-> "dims_mismatch", arg |-> "bias"]
      ELSE [status |-> "ok", arg |-> ""]

\* the checks without the one of bias
first_check_failure_bias_unchecked(input, weight, bias, running_mean, running_var, training) ==
  LET num_features == input.sizes[2]
  IN  IF running_mean.defined
         /\ ~check_dims_match_num_input_features(num_features, running_mean.numel)
      THEN [status |-> "dims_mismatch", arg |-> "running_mean"]
      ELSE IF ~running_mean.defined /\ ~training
      THEN [status |-> "missing_running_state", arg |-> "running_mean"]
      ELSE IF running_var.defined
              /\ ~check_dims_match_num_input_features(num_features, running_var.numel)
      THEN [status |-> "dims_mismatch", arg |-> "running_var"]
      ELSE IF ~running_var.defined /\ ~training
      THEN [status |-> "missing_running_state", arg |-> "running_var"]
      ELSE IF weight.defined
              /\ ~check_dims_match_num_input_features(num_features, weight.numel)
      THEN [status |-> "dims_mismatch", arg |-> "weight"]
      ELSE [status |-> "ok", arg |-> ""]

\* the first failing check of lines 344-359, status "ok" when all pass
first_check_failure(input, weight, bias, running_mean, running_var, training) ==
  LET num_features == input.sizes[2]
  IN  IF running_mean.defined
         /\ ~check_dims_match_num_input_features(num_features, running_mean.numel)
      THEN [status |-> "dims_mismatch", arg |-> "running_mean"]
      ELSE IF ~running_mean.defined /\ ~training
      THEN [status |-> "missing_running_state", arg |-> "running_mean"]
      ELSE IF running_var.defined
              /\ ~check_dims_match_num_input_features(num_features, running_var.numel)
      THEN [status |-> "dims_mismatch", arg |-> "running_var"]
      ELSE IF ~running_var.defined /\ ~training
      THEN [status |-> "missing_running_state", arg |-> "running_var"]
      ELSE IF weight.defined
              /\ ~check_dims_match_num_input_features(num_features, weight.numel)
      THEN [status |-> "dims_mismatch", arg |-> "weight"]
      ELSE IF bias.defined
              /\ ~check_dims_match_num_input_features(num_features, bias.numel)
      THEN [status |-> "dims_mismatch", arg |-> "bias"]
      ELSE [status |-> "ok", arg |-> ""]

use_cudnn(env, input, weight, bias, running_mean, running_var, training, cudnn_enabled) ==
  /\ env.is_cuda
  /\ (env.in_type # "Half" \/ env.w_type = "Float")
  /\ weight.defined /\ bias.defined
  /\ \/ (running_mean.defined /\ running_var.defined)
     \/ (~running_mean.defined /\ ~running_var.defined /\ training)
  /\ input.sizes[1] <= MaxCuDNNBatch
  /\ env.compiledWithCuDNN
  /\ cudnn_enabled /\ env.versionCuDNN >= MinCuDNNVersion

\* the MIOpen precondition without the test of the build
use_miopen_in_any_build(env, input, weight, bias, running_mean, running_var, training) ==
  /\ env.is_cuda
  /\ input.dim <= MIOPEN_DIM_MAX
  /\ env.in_type # "Double"
  /\ env.w_type # "Half"
  /\ weight.defined /\ bias.defined
  /\ \/ (running_mean.defined /\ running_var.defined)
     \/ (~running_mean.defined /\ ~running_var.defined /\ training)

use_miopen(env, input, weight, bias, running_mean, running_var, training) ==
  /\ env.is_cuda
  /\ input.dim <= MIOPEN_DIM_MAX
  /\ env.in_type # "Double"
  /\ env.w_type # "Half"
  /\ weight.defined /\ bias.defined
  /\ \/ (running_mean.defined /\ running_var.defined)
     \/ (~running_mean.defined /\ ~running_var.defined /\ training)
  /\ env.compiledWithMIOpen

\* the backend the selector runs and the tag it returns with its results
select_backend(env, input, weight, bias, running_mean, running_var, training, eps, cudnn_enabled) ==
  IF use_cudnn(env, input, weight, bias, running_mean, running_var, training, cudnn_enabled)
     /\ Geq(eps, env.batchnormMinEpsilonCuDNN)
  THEN [backend |-> "cudnn", impl_index |-> 1]
  ELSE IF use_miopen(env, input, weight, bias, running_mean, running_var, training)
  THEN [backend |-> "miopen", impl_index |-> 2]
  ELSE [backend |-> "native", impl_index |-> 0]

\* a forward kernel on the device: its results are not modelled
device_batch_norm(input, running_mean, running_var) ==
  [ output |-> Opaque(input.sizes), save_mean |-> OpaqueVec(input.sizes[2]),
    save_invstd |-> OpaqueVec(input.sizes[2]), path |-> "device",
    running_mean |-> running_mean, running_var |-> running_var ]

\* at::native_batch_norm: batch_norm_cpu for CPU tensors
native_batch_norm(env, input, weight, bias, running_mean, running_var, training, momentum, eps) ==
  IF env.is_cuda THEN device_batch_norm(input, running_mean, running_var)
  ELSE batch_norm_cpu(input, weight, bias, running_mean, running_var, training, momentum, eps)

\* a call that failed: nothing is returned, nothing is written
failed_forward(status, arg, running_mean, running_var) ==
  [ status |-> status, arg |-> arg, impl_index |-> -1, backend |-> "none", path |-> "none",
    output |-> NoTensor, save_mean |-> Undefined, save_invstd |-> Undefined,
    running_mean |-> running_mean, running_var |-> running_var ]

\* the tuple of a forward call: chk the outcome of the checks, sel the backend
\* selected, r what that backend returned and left
forward_return(chk, sel, r, running_mean, running_var) ==
  IF chk.status # "ok"
  THEN failed_forward(chk.status, chk.arg, running_mean, running_var)
  ELSE [ status |-> "ok", arg |-> "", impl_index |-> sel.impl_index,
         backend |-> sel.backend, path |-> r.path,
         output |-> r.output, save_mean |-> r.save_mean, save_invstd |-> r.save_invstd,
         running_mean |-> r.running_mean, running_var |-> r.running_var ]

\* the backend sel at work
run_backend(sel, env, input, weight, bias, running_mean, running_var, training, momentum, eps) ==
  IF sel.backend = "native"
  THEN native_batch_norm(env, input, weight, bias, running_mean, running_var,
                         training, momentum, eps)
  ELSE device_batch_norm(input, running_mean, running_var)

_batch_norm_impl_index(env, input, weight, bias, running_mean, running_var, training, momentum, eps, cudnn_enabled) ==
  forward_return(
    first_check_failure(input, weight, bias, running_mean, running_var, training),
    select_backend(env, input, weight, bias, running_mean, running_var,
                   training, eps, cudnn_enabled),
    run_backend(select_backend(env, input, weight, bias, running_mean, running_var,
                               training, eps, cudnn_enabled),
                env, input, weight, bias, running_mean, running_var,
                training, momentum, eps),
    running_mean, running_var)

\* ------------------------------------------------------------------------
\* _batch_norm_impl_index_backward
\* ------------------------------------------------------------------------
\* the routing with the tags of the two libraries exchanged
backward_backend_exchanged(impl_index) ==
  IF impl_index = 0 THEN "native"
  ELSE IF impl_index = 1 THEN "miopen"
  ELSE IF impl_index = 2 THEN "cudnn"
  ELSE "none"

\* the routing without the branch of tag 2
backward_backend_without_miopen(impl_index) ==
  IF impl_index = 0 THEN "native"
  ELSE IF impl_index = 1 THEN "cudnn"
  ELSE "none"

\* the backward implementation each tag routes to ("none": AT_ASSERTM fails)
backward_backend(impl_index) ==
  IF impl_index = 0 THEN "native"
  ELSE IF impl_index = 1 THEN "cudnn"
  ELSE IF impl_index = 2 THEN "miopen"
  ELSE "none"

\* a backward kernel on the device: its results are not modelled
device_backward(input) ==
  [ status |-> "ok", grad_input |-> Opaque(input.sizes),
    grad_weight |-> OpaqueVec(input.sizes[2]), grad_bias |-> OpaqueVec(input.sizes[2]) ]

\* at::native_batch_norm_backward: batch_norm_backward_cpu for CPU tensors
native_batch_norm_backward(env, grad_out, input, weight, running_mean, running_var, save_mean, save_invstd, train, eps, output_mask) ==
  IF env.is_cuda THEN device_backward(input)
  ELSE batch_norm_backward_cpu_template(grad_out, input, weight, running_mean, running_var,
                                        save_mean, save_invstd, train, eps, output_mask)

\* the tuple of a backward call routed to the backend b
backward_return(impl_index, b, r) ==
  [ status |-> r.status, impl_index |-> impl_index, backend |-> b,
    grad_input |-> r.grad_input, grad_weight |-> r.grad_weight,
    grad_bias |-> r.grad_bias ]

\* the backward implementation b at work
run_backward(b, env, input, grad_output, weight, running_mean, running_var, save_mean, save_var_transform, train, epsilon, output_mask) ==
  IF b = "native"
  THEN native_batch_norm_backward(env, grad_output, input, weight, running_mean,
                                  running_var, save_mean, save_var_transform,
                                  train, epsilon, output_mask)
  ELSE IF b = "cudnn" \/ b = "miopen" THEN device_backward(input)
  ELSE [ status |-> "unsupported_impl_index", grad_input |-> NoTensor,
         grad_weight |-> Undefined, grad_bias |-> Undefined ]

_batch_norm_impl_index_backward(env, impl_index, input, grad_output, weight, running_mean, running_var, save_mean, save_var_transform, train, epsilon, output_mask) ==
  backward_return(impl_index, backward_backend(impl_index),
    run_backward(backward_backend(impl_index), env, input, grad_output, weight,
                 running_mean, running_var, save_mean, save_var_transform,
                 train, epsilon, output_mask))

\* ------------------------------------------------------------------------
\* batch_norm_update_stats_cpu
\* ------------------------------------------------------------------------
batch_norm_update_stats_cpu(self, running_mean, running_var, momentum) ==
  batch_norm_cpu_update_stats_template("Var", self, running_mean, running_var, momentum, R(0))

\* ------------------------------------------------------------------------
\* The state: the caller's tensors and what the last calls returned
\* ------------------------------------------------------------------------
\*   log is the sequence of the calls made: "train" and "eval" for a forward
\*   call in training and in inference mode, "backward", "update_stats"
\*   par is the call in progress when its parallel_for passes are followed
\*   access by access, and NoRun otherwise
VARIABLES env, input, weight, bias, running_mean, running_var,
          fwd, bwd, stats, log, par

vars == <<env, input, weight, bias, running_mean, running_var, fwd, bwd, stats, log, par>>

\* the number of calls made, and the last of them
calls == Len(log)
op == IF log = <<>> THEN "init" ELSE log[Len(log)]

NoForward ==
  [ status |-> "none", arg |-> "", impl_index |-> -1, backend |-> "none", path |-> "none",
    output |-> NoTensor, save_mean |-> Undefined, save_invstd |-> Undefined,
    training |-> FALSE, momentum |-> R(0), eps |-> R(0), cudnn_enabled |-> FALSE ]

NoBackward ==
  [ status |-> "none", impl_index |-> -1, backend |-> "none", mask |-> <<FALSE, FALSE, FALSE>>,
    grad_out |-> NoTensor,
    grad_input |-> NoTensor, grad_weight |-> Undefined, grad_bias |-> Undefined ]

NoStats == [ status |-> "none", momentum |-> R(0), mean |-> Undefined, var |-> Undefined ]

\* no call is in progress
NoRun == [ phase |-> "idle" ]

\* ------------------------------------------------------------------------
\* The values the calls are made with
\* ------------------------------------------------------------------------
Momenta == { Q(1, 10) }
Epsilons == { R(0), Q(1, 4) }
Masks == { <<a, b, c>> : a \in BOOLEAN, b \in BOOLEAN, c \in BOOLEAN }
ImplIndices == -1..3

\* the gradients handed to backward: all ones, or one that grows with the
\* square of the position in each feature plane
GradOut(sizes, g) ==
  [ defined |-> TRUE, sizes |-> sizes,
    data |-> Array([n \in 1..sizes[1] |-> Array([c \in 1..sizes[2] |->
               Array([i \in 1..sizes[3] |->
                 IF g = 1 THEN R(1)
                 ELSE R(((n - 1) * sizes[3] + i) * ((n - 1) * sizes[3] + i) - c)])])]) ]

OnesLike(sizes) == GradOut(sizes, 1)

SquaresLike(sizes) == GradOut(sizes, 2)

\* the growing gradient of a call, on the device or on the CPU
SquaresGrad == IF env.is_cuda THEN Opaque(input.sizes) ELSE SquaresLike(input.sizes)

\* the gradient of ones of a call, on the device or on the CPU
OnesGrad == IF env.is_cuda THEN Opaque(input.sizes) ELSE OnesLike(input.sizes)

\* ------------------------------------------------------------------------
\* Actions
\* ------------------------------------------------------------------------
\* the arguments of a forward call: momentum is read in training mode only,
\* cudnn_enabled for CUDA tensors only
ForwardArgs ==
  { [training |-> TRUE, momentum |-> m, eps |-> e, cudnn_enabled |-> c] :
      m \in Momenta, e \in Epsilons, c \in (IF env.is_cuda THEN BOOLEAN ELSE {TRUE}) }
  \cup
  { [training |-> FALSE, momentum |-> Q(1, 10), eps |-> e, cudnn_enabled |-> c] :
      e \in Epsilons, c \in (IF env.is_cuda THEN BOOLEAN ELSE {TRUE}) }

\* the arguments of a backward call: the tag the forward call returned with
\* a growing gradient and any mask, or any tag with a gradient of ones and a full
\* mask
BackwardArgs ==
  { [impl_index |-> fwd.impl_index, grad_output |-> SquaresGrad, output_mask |-> m] :
      m \in Masks }
  \cup
  { [impl_index |-> t, grad_output |-> OnesGrad,
     output_mask |-> <<TRUE, TRUE, TRUE>>] : t \in ImplIndices }

\* at::_batch_norm_impl_index(input, weight, bias, running_mean, running_var, ...)
Forward ==
  /\ calls < MaxCalls
  /\ \E a \in ForwardArgs :
       \E r \in { _batch_norm_impl_index(env, input, weight, bias, running_mean,
                    running_var, a.training, a.momentum, a.eps, a.cudnn_enabled) } :
         /\ fwd' = [ status |-> r.status, arg |-> r.arg, impl_index |-> r.impl_index,
                     backend |-> r.backend, path |-> r.path, output |-> r.output,
                     save_mean |-> r.save_mean, save_invstd |-> r.save_invstd,
                     training |-> a.training, momentum |-> a.momentum, eps |-> a.eps,
                     cudnn_enabled |-> a.cudnn_enabled ]
         /\ running_mean' = r.running_mean
         /\ running_var' = r.running_var
  /\ log' = Append(log, IF fwd'.training THEN "train" ELSE "eval")
  /\ UNCHANGED <<env, input, weight, bias, bwd, stats, par>>

\* at::_batch_norm_impl_index_backward(impl_index, ...) with the tensors a
\* successful forward call saved, its mode and its epsilon
Backward ==
  /\ calls < MaxCalls
  /\ fwd.status = "ok"
  /\ \E a \in BackwardArgs :
       \E r \in { _batch_norm_impl_index_backward(env, a.impl_index, input, a.grad_output,
                    weight, running_mean, running_var, fwd.save_mean, fwd.save_invstd,
                    fwd.training, fwd.eps, a.output_mask) } :
         bwd' = [ status |-> r.status, impl_index |-> r.impl_index, backend |-> r.backend,
                  mask |-> a.output_mask, grad_out |-> a.grad_output,
                  grad_input |-> r.grad_input, grad_weight |-> r.grad_weight,
                  grad_bias |-> r.grad_bias ]
  /\ log' = Append(log, "backward")
  /\ UNCHANGED <<env, input, weight, bias, running_mean, running_var, fwd, stats, par>>

\* at::batch_norm_update_stats(input, running_mean, running_var, momentum) on
\* CPU tensors; the running tensors it is given have one element per feature
UpdateStats ==
  /\ calls < MaxCalls
  /\ ~env.is_cuda
  /\ running_mean.defined => running_mean.numel = input.sizes[2]
  /\ running_var.defined => running_var.numel = input.sizes[2]
  /\ \E momentum \in Momenta :
       \E r \in { batch_norm_update_stats_cpu(input, running_mean, running_var, momentum) } :
         /\ stats' = [ status |-> "ok", momentum |-> momentum,
                       mean |-> r.save_mean, var |-> r.save_var_transform ]
         /\ running_mean' = r.running_mean
         /\ running_var' = r.running_var
  /\ log' = Append(log, "update_stats")
  /\ UNCHANGED <<env, input, weight, bias, fwd, bwd, par>>

Next == Forward \/ Backward \/ UpdateStats

\* the forward entries alone
NextForward == Forward \/ UpdateStats

\* the selector and its backward
NextSelect == Forward \/ Backward

\* ------------------------------------------------------------------------
\* Initial states: the tensors and the environment a caller can hold
\* ------------------------------------------------------------------------
\* CUDNN_BN_MIN_EPSILON, as detail::getCUDAHooks().batchnormMinEpsilonCuDNN() answers
MinEpsilonCuDNN == Q(1, 100000)

\* a CPU call: the device kernels are out of reach whatever the build holds
CPUEnv(w) ==
  [ is_cuda |-> FALSE, in_type |-> "Float",
    w_type |-> IF w.defined THEN "Float" ELSE "Undefined",
    compiledWithCuDNN |-> TRUE, versionCuDNN |-> MinCuDNNVersion,
    compiledWithMIOpen |-> FALSE, batchnormMinEpsilonCuDNN |-> MinEpsilonCuDNN ]

\* a CUDA call in a build with the given libraries
CUDAEnv(in_type, w_type, w, cudnn, version, miopen) ==
  [ is_cuda |-> TRUE, in_type |-> in_type,
    w_type |-> IF w.defined THEN w_type ELSE "Undefined",
    compiledWithCuDNN |-> cudnn, versionCuDNN |-> version,
    compiledWithMIOpen |-> miopen, batchnormMinEpsilonCuDNN |-> MinEpsilonCuDNN ]

Shapes == (1..MaxBatch) \X (1..MaxFeat) \X (1..MaxImage)

SmallShapes == { s \in Shapes : s[1] * s[2] * s[3] <= MaxNumel }

\* every tensor of the given extents with elements in 0..MaxVal
InputData(sizes) ==
  [1..sizes[1] -> [1..sizes[2] -> [1..sizes[3] -> {R(v) : v \in 0..MaxVal}]]]

\* the tensor whose elements grow along the batch, the features and the image
Ramp(sizes) ==
  Array([n \in 1..sizes[1] |-> Array([c \in 1..sizes[2] |-> Array([i \in 1..sizes[3] |->
     R((n - 1) * sizes[3] + (i - 1) + (c - 1))])])])

CPUInput(sizes, contig, data) ==
  [sizes |-> sizes, dim |-> 3, contig |-> contig, data |-> data]

\* a CUDA input of dim dimensions; its trailing extents multiply to sizes[3]
CUDAInput(sizes, dim) ==
  [sizes |-> sizes, dim |-> dim, contig |-> TRUE, data |-> <<>>]

\* the first c elements of a sample vector, repeated when c is larger
Prefix(s, c) == Array([f \in 1..c |-> s[((f - 1) % Len(s)) + 1]])

\* a 1-D tensor of c elements on the device
DeviceVec(c) == [defined |-> TRUE, contig |-> TRUE, numel |-> c, data |-> <<>>]

InitWith(e, in, w, b, rm, rv) ==
  /\ env = e
  /\ input = in
  /\ weight = w
  /\ bias = b
  /\ running_mean = rm
  /\ running_var = rv
  /\ fwd = NoForward
  /\ bwd = NoBackward
  /\ stats = NoStats
  /\ log = <<>>
  /\ par = NoRun

\* the input of shape [2, 3, 1] with the values [[1, 2, 3], [3, 4, 5]]
ScenarioInput ==
  CPUInput(<<2, 3, 1>>, TRUE,
           << <<<<R(1)>>, <<R(2)>>, <<R(3)>>>>, <<<<R(3)>>, <<R(4)>>, <<R(5)>>>> >>)

\* the reducer: every small input, with and without running state, no affine
\* parameters, and the scenario input
InitStats ==
  \/ \E sizes \in SmallShapes :
       \E data \in InputData(sizes) :
         \E rm \in {Undefined, Vec(Prefix(<<R(1), R(0), R(2)>>, sizes[2]), TRUE)},
            rv \in {Undefined, Vec(Prefix(<<R(3), R(1), R(0)>>, sizes[2]), TRUE)} :
           InitWith(CPUEnv(Undefined), CPUInput(sizes, TRUE, data),
                    Undefined, Undefined, rm, rv)
  \/ \E rm \in {Undefined, Vec(<<R(1), R(0), R(2)>>, TRUE)},
        rv \in {Undefined, Vec(<<R(3), R(1), R(0)>>, TRUE)} :
       InitWith(CPUEnv(Undefined), ScenarioInput, Undefined, Undefined, rm, rv)

\* which of the five tensors is not contiguous
Layouts == {"contiguous", "input", "weight", "running_mean", "running_var"}

\* the shapes whose extents are 1 or the largest
CornerShapes == {1, MaxBatch} \X {1, MaxFeat} \X {1, MaxImage}

\* the transform applier: ramp inputs of the corner shapes, running state
\* present; all tensors contiguous with the affine parameters present or
\* absent, or all tensors present with one of them not contiguous
InitPath ==
  \E sizes \in CornerShapes, layout \in Layouts :
    \E w \in {Undefined, Vec(Prefix(<<R(2), R(-1), R(3)>>, sizes[2]), layout # "weight")},
       b \in {Undefined, Vec(Prefix(<<R(1), R(2), R(-2)>>, sizes[2]), TRUE)},
       rv \in { Vec(Prefix(<<R(3), R(1), R(2)>>, sizes[2]), layout # "running_var"),
                Vec(Prefix(<<R(0), R(2), R(1)>>, sizes[2]), layout # "running_var") } :
      /\ layout # "contiguous" =>
           (w.defined /\ b.defined /\ rv.data[1] = R(3))
      /\ InitWith(CPUEnv(w), CPUInput(sizes, layout # "input", Ramp(sizes)), w, b,
                  Vec(Prefix(<<R(1), R(0), R(2)>>, sizes[2]), layout # "running_mean"), rv)

\* a 1-D tensor argument: absent, of num_features elements, or one longer
Arguments(is_cuda, c, sample) ==
  IF is_cuda THEN {Undefined, DeviceVec(c), DeviceVec(c + 1)}
  ELSE {Undefined, Vec(Prefix(sample, c), TRUE), Vec(Prefix(sample, c + 1), TRUE)}

\* the call protocol: every combination of absent, well-sized and ill-sized
\* arguments, on the CPU and on a CUDA device with cuDNN
InitCalls ==
  \E is_cuda \in BOOLEAN :
    LET sizes == <<MaxBatch, MaxFeat, 1>>
    IN  \E w  \in Arguments(is_cuda, sizes[2], <<R(2), R(-1), R(3)>>),
           b  \in Arguments(is_cuda, sizes[2], <<R(1), R(2), R(-2)>>),
           rm \in Arguments(is_cuda, sizes[2], <<R(1), R(0), R(2)>>),
           rv \in Arguments(is_cuda, sizes[2], <<R(3), R(1), R(2)>>) :
          IF is_cuda
          THEN InitWith(CUDAEnv("Float", "Float", w, TRUE, MinCuDNNVersion, FALSE),
                        CUDAInput(sizes, 3), w, b, rm, rv)
          ELSE InitWith(CPUEnv(w), CPUInput(sizes, TRUE, Ramp(sizes)), w, b, rm, rv)

ScalarTypes == {"Half", "Float", "Double"}

\* the selector: CUDA calls in every build, with every element type, with 3
\* and 5 dimensions, with a batch cuDNN takes and one it does not; and CPU
\* calls on a contiguous and on a strided input
InitSelect ==
  \E in_type \in ScalarTypes, w_type \in ScalarTypes, cudnn \in BOOLEAN, miopen \in BOOLEAN,
     version \in {MinCuDNNVersion - 1, MinCuDNNVersion},
     dim \in {MIOPEN_DIM_MAX - 1, MIOPEN_DIM_MAX + 1},
     batch \in {MaxBatch, MaxCuDNNBatch + 1} :
    \E w \in {Undefined, DeviceVec(MaxFeat)}, b \in {Undefined, DeviceVec(MaxFeat)},
       rm \in {Undefined, DeviceVec(MaxFeat)}, rv \in {Undefined, DeviceVec(MaxFeat)} :
      \/ /\ ~w.defined => w_type = "Float"
         /\ InitWith(CUDAEnv(in_type, w_type, w, cudnn, version, miopen),
                     CUDAInput(<<batch, MaxFeat, 1>>, dim), w, b, rm, rv)
      \/ /\ in_type = "Float" /\ w_type = "Float" /\ cudnn /\ ~miopen
         /\ version = MinCuDNNVersion /\ batch = MaxBatch
         /\ rm.defined = rv.defined
         /\ LET sizes == <<MaxBatch, MaxFeat, 1>>
                h(t, sample) == IF t.defined THEN Vec(Prefix(sample, MaxFeat), TRUE) ELSE t
            IN  InitWith(CPUEnv(w), CPUInput(sizes, dim <= MIOPEN_DIM_MAX, Ramp(sizes)),
                         h(w, <<R(2), R(-1), R(3)>>), h(b, <<R(1), R(2), R(-2)>>),
                         h(rm, <<R(1), R(0), R(2)>>), h(rv, <<R(3), R(1), R(2)>>))

\* ------------------------------------------------------------------------
\* Specifications
\* ------------------------------------------------------------------------
\* the call protocol
Init == InitCalls
Spec == Init /\ [][Next]_vars

\* the reducer and the running statistics
SpecStats == InitStats /\ [][NextForward]_vars

\* the transform applier and the backward engine on the CPU
SpecPath == InitPath /\ [][NextSelect]_vars

\* the selector on a CUDA device
SpecSelect == InitSelect /\ [][NextSelect]_vars

\* ------------------------------------------------------------------------
\* The parallel_for passes, access by access
\*   Each of the three templates runs its loop over the features under
\*   parallel_for(0, n_input, 1, ...): the range is cut into chunks of
\*   consecutive features, one worker runs the loop body over each chunk, and
\*   the call goes on when every worker is through.
\* ------------------------------------------------------------------------
\* the k-th smallest element of a set of numbers
Nth(S, k) == CHOOSE x \in S : Cardinality({y \in S : y < x}) = k - 1

\* the chunk that begins at the k-th of the given first features
chunk_of(starts, n, k) ==
  <<Nth(starts, k), IF k = Cardinality(starts) THEN n ELSE Nth(starts, k + 1) - 1>>

\* parallel_for(0, n, 1, f): every way to cut the features 1..n into chunks
\* <<begin, end>> of consecutive features
parallel_for(n) ==
  { Array([k \in 1..Cardinality(starts) |-> chunk_of(starts, n, k)]) :
      starts \in { {1} \cup S : S \in SUBSET (2..n) } }

\* a 1-D tensor of n elements expanded from one element v: its stride is 0,
\* and every index reads and writes the same element
Expanded(v, n) ==
  [ defined |-> TRUE, contig |-> n = 1, numel |-> n,
    data |-> Array([f \in 1..n |-> v]), stride |-> 0 ]

\* the element of the storage of t that the accessor reaches at index f
element_of(t, f) == IF "stride" \in DOMAIN t THEN (f - 1) * t.stride ELSE f - 1

\* t after the assignment t_a[f] = v
assign(t, f, v) ==
  [t EXCEPT !.data =
     Array([g \in 1..t.numel |->
        IF element_of(t, g) = element_of(t, f) THEN v ELSE t.data[g]])]

\* the locals of a worker that starts the loop body for feature f in the
\* chunk <<begin, end>>
Worker(f, chunk, stage) ==
  [ f |-> f, begin |-> chunk[1], end |-> chunk[2], stage |-> stage,
    mean |-> Uninit, var_sum |-> Uninit, invstd |-> Uninit, sum |-> Uninit,
    dotp |-> Uninit, loaded |-> Uninit ]

Workers(chunks, stage) ==
  Array([k \in 1..Len(chunks) |-> Worker(chunks[k][1], chunks[k], stage)])

\* the loop of a worker running to the last feature of the input, not to the
\* end of its chunk
after_stage_to_last(p, next, first) ==
  IF next # "end" THEN [p EXCEPT !.stage = next]
  ELSE IF p.f < input.sizes[2] THEN Worker(p.f + 1, <<p.begin, p.end>>, first)
  ELSE [p EXCEPT !.stage = "end"]

\* the worker p after a stage of the loop body, next being the stage that
\* follows it ("end": the body is through) and first the first of the body
after_stage(p, next, first) ==
  IF next # "end" THEN [p EXCEPT !.stage = next]
  ELSE IF p.f < p.end THEN Worker(p.f + 1, <<p.begin, p.end>>, first)
  ELSE [p EXCEPT !.stage = "end"]

\* the loop body of the reducer with the variance pass before the mean pass
stats_stage_after_var_first(stage, mean_defined, var_defined) ==
  IF stage = "var" THEN "mean"
  ELSE IF stage = "mean" \/ stage = "running_mean_store"
  THEN IF stage = "mean" /\ mean_defined THEN "running_mean_load"
       ELSE IF var_defined THEN "running_var_load" ELSE "end"
  ELSE IF stage = "running_mean_load" THEN "running_mean_store"
  ELSE IF stage = "running_var_load" THEN "running_var_store"
  ELSE "end"

\* the order of the loop body of the reducer: the mean pass, the variance
\* pass, the update of running_mean and the update of running_var, each
\* update a read and a write of the element
stats_stage_after(stage, mean_defined, var_defined) ==
  IF stage = "mean" THEN "var"
  ELSE IF stage = "var" \/ stage = "running_mean_store"
  THEN IF stage = "var" /\ mean_defined THEN "running_mean_load"
       ELSE IF var_defined THEN "running_var_load" ELSE "end"
  ELSE IF stage = "running_mean_load" THEN "running_mean_store"
  ELSE IF stage = "running_var_load" THEN "running_var_store"
  ELSE "end"

\* per feature, nothing yet
Nothing(n, v) == Array([f \in 1..n |-> v])

\* a call that enters its first pass: the workers at the first stage of their
\* chunks, the tensors the call allocates not yet written, no stage done, no
\* element accessed; before is the running state the call was given
NewRun(phase, call, chunks, stage, before) ==
  [ phase |-> phase, call |-> call, pos |-> Workers(chunks, stage),
    save_mean |-> Nothing(input.sizes[2], Uninit),
    save_invstd |-> Nothing(input.sizes[2], Uninit),
    planes |-> Nothing(input.sizes[2], <<>>),
    grad_weight |-> Nothing(input.sizes[2], Uninit),
    grad_bias |-> Nothing(input.sizes[2], Uninit),
    done |-> Nothing(input.sizes[2], {}),
    access |-> {}, raced |-> FALSE, before |-> before ]

\* an access of worker w: a read or a write of element e of the tensor t
Read(w, t, e) == <<"read", t, e, w>>
Write(w, t, e) == <<"write", t, e, w>>

\* two workers access the same element in one pass, one of them writing it
conflict(x, y) ==
  /\ x[2] = y[2] /\ x[3] = y[3]
  /\ x[4] # y[4]
  /\ (x[1] = "write" \/ y[1] = "write")

data_race(access, acc) == \E x \in acc, y \in access : conflict(x, y)

\* the run after worker w went through a stage of feature f: its locals p,
\* the stage done, the accesses acc it made
stepped(run, w, p, f, stage, acc) ==
  [run EXCEPT !.pos[w] = p, !.done[f] = @ \cup {stage}, !.access = @ \cup acc,
              !.raced = @ \/ data_race(run.access, acc)]

\* ------------------------------------------------------------------------
\* The pass of batch_norm_cpu_update_stats_template<scalar_t, InvStd>
\* ------------------------------------------------------------------------
\* the worker p at the stage that follows the one it is at
stats_next(p) ==
  after_stage(p, stats_stage_after(p.stage, running_mean.defined, running_var.defined),
              "mean")

\* the run and the running state after a stage that left the run r
stats_outcome(r, mean, var) == [ run |-> r, running_mean |-> mean, running_var |-> var ]

\* mean = sum / n; save_mean_a[f] = mean
stats_mean(run, w, p, mean) ==
  stats_outcome(
    [stepped(run, w, stats_next([p EXCEPT !.mean = mean]), p.f, "mean",
             {Write(w, "save_mean", p.f - 1)})
       EXCEPT !.save_mean[p.f] = mean],
    running_mean, running_var)

\* var_sum += (i - mean) * (i - mean); save_var_transform_a[f] = ...
stats_var(run, w, p, var_sum) ==
  stats_outcome(
    [stepped(run, w, stats_next([p EXCEPT !.var_sum = var_sum]), p.f, "var",
             {Write(w, "save_invstd", p.f - 1)})
       EXCEPT !.save_invstd[p.f] =
                VarTransform("InvStd", Div(var_sum, R(reduce_count(input))), run.call.eps)],
    running_mean, running_var)

\* the read of running_mean_a[f] and of running_var_a[f]
stats_load(run, w, p, name, t) ==
  stats_outcome(
    stepped(run, w, stats_next([p EXCEPT !.loaded = conditional_accessor_1d(t, p.f)]),
            p.f, p.stage, {Read(w, name, element_of(t, p.f))}),
    running_mean, running_var)

\* running_mean_a[f] = momentum * mean + (1 - momentum) * running_mean_a[f]
stats_store_mean(run, w, p) ==
  stats_outcome(
    stepped(run, w, stats_next(p), p.f, p.stage,
            {Write(w, "running_mean", element_of(running_mean, p.f))}),
    assign(running_mean, p.f, running_update(run.call.momentum, p.mean, p.loaded)),
    running_var)

\* running_var_a[f] = momentum * unbiased_var + (1 - momentum) * running_var_a[f]
stats_store_var(run, w, p) ==
  stats_outcome(
    stepped(run, w, stats_next(p), p.f, p.stage,
            {Write(w, "running_var", element_of(running_var, p.f))}),
    running_mean,
    assign(running_var, p.f,
           running_update(run.call.momentum,
                          unbiased_var(p.var_sum, reduce_count(input)), p.loaded)))

\* the stage worker w is at, for the feature it is at
stats_stage(run, w, p) ==
  IF p.stage = "mean"
  THEN stats_mean(run, w, p, feature_mean(select(input, p.f), reduce_count(input)))
  ELSE IF p.stage = "var"
  THEN stats_var(run, w, p, feature_var_sum(select(input, p.f), p.mean))
  ELSE IF p.stage = "running_mean_load" THEN stats_load(run, w, p, "running_mean", running_mean)
  ELSE IF p.stage = "running_mean_store" THEN stats_store_mean(run, w, p)
  ELSE IF p.stage = "running_var_load" THEN stats_load(run, w, p, "running_var", running_var)
  ELSE stats_store_var(run, w, p)

\* ------------------------------------------------------------------------
\* The pass of batch_norm_cpu_transform_input_template (the general path)
\* ------------------------------------------------------------------------
\* the statistics the call saved so far, as the tensors the transform reads
saved(run, s) == IF run.call.training THEN Vec(s, TRUE) ELSE Undefined

\* the loop body for feature f: it reads the statistics of f and writes the
\* plane output.select(1, f)
transform_stage(run, w, p) ==
  [stepped(run, w, after_stage(p, "end", "apply"), p.f, "apply",
           { Write(w, "output", p.f - 1),
             IF run.call.training THEN Read(w, "save_mean", p.f - 1)
             ELSE Read(w, "running_mean", element_of(running_mean, p.f)),
             IF run.call.training THEN Read(w, "save_invstd", p.f - 1)
             ELSE Read(w, "running_var", element_of(running_var, p.f)) })
     EXCEPT !.planes[p.f] =
       transform_feature(input, weight, bias, saved(run, run.save_mean),
                         saved(run, run.save_invstd), running_mean, running_var,
                         run.call.training, run.call.eps, p.f)]

\* every worker is through its chunk
joined(run) == \A w \in 1..Len(run.pos) : run.pos[w].stage = "end"

\* the tensor of the planes the workers wrote
from_run(run) ==
  [ defined |-> TRUE, sizes |-> input.sizes, data |-> from_planes(input.sizes, run.planes) ]

\* what the forward call hands back when its last pass is through
forward_done(run) ==
  [ status |-> "ok", arg |-> "", impl_index |-> 0, backend |-> "native", path |-> "general",
    output |-> from_run(run), save_mean |-> saved(run, run.save_mean),
    save_invstd |-> saved(run, run.save_invstd),
    training |-> run.call.training, momentum |-> run.call.momentum, eps |-> run.call.eps ]

\* no call is in progress: none was made, or the last one returned.  What
\* the program does after a call with a data race is not defined, and no
\* call is followed after one
no_call_running == par.phase = "idle" \/ (par.phase = "returned" /\ ~par.raced)

\* the run of a call that returned: its workers are gone
returned(run) == [run EXCEPT !.phase = "returned", !.pos = <<>>, !.access = {}]

\* a forward call that runs no pass: a check fails, or the fast path, which
\* has no parallel_for, is taken
returns_at_once(a) ==
  \/ first_check_failure(input, weight, bias, running_mean, running_var,
                         a.training).status # "ok"
  \/ use_fast_path(input, weight, bias, running_mean, running_var, a.training)

\* at::_batch_norm_impl_index on CPU tensors: the call returns at once, or
\* enters the pass of the reducer (training) or of the transform (inference).
\* The calls with the epsilon 1/4 are followed access by access
ParForward ==
  /\ no_call_running
  /\ calls < MaxCalls
  /\ ~env.is_cuda
  /\ \E a \in { x \in ForwardArgs : x.eps = Q(1, 4) } :
       IF returns_at_once(a)
       THEN \E r \in { _batch_norm_impl_index(env, input, weight, bias, running_mean,
                         running_var, a.training, a.momentum, a.eps, a.cudnn_enabled) } :
              /\ fwd' = [ status |-> r.status, arg |-> r.arg, impl_index |-> r.impl_index,
                          backend |-> r.backend, path |-> r.path, output |-> r.output,
                          save_mean |-> r.save_mean, save_invstd |-> r.save_invstd,
                          training |-> a.training, momentum |-> a.momentum, eps |-> a.eps ]
              /\ log' = Append(log, IF a.training THEN "train" ELSE "eval")
              /\ par' = NoRun
       ELSE \E chunks \in parallel_for(input.sizes[2]) :
              /\ par' = NewRun(IF a.training THEN "stats" ELSE "transform",
                               [ training |-> a.training, momentum |-> a.momentum,
                                 eps |-> a.eps, mask |-> <<FALSE, FALSE, FALSE>>,
                                 grad_out |-> NoTensor ],
                               chunks, IF a.training THEN "mean" ELSE "apply",
                               [running_mean |-> running_mean, running_var |-> running_var])
              /\ UNCHANGED <<fwd, log>>
  /\ UNCHANGED <<env, input, weight, bias, running_mean, running_var, bwd, stats>>

\* a worker of the reducer goes through the stage it is at
ParStats ==
  /\ par.phase = "stats"
  /\ \E w \in 1..Len(par.pos) :
       /\ par.pos[w].stage # "end"
       /\ \E s \in { stats_stage(par, w, par.pos[w]) } :
            /\ par' = s.run
            /\ running_mean' = s.running_mean
            /\ running_var' = s.running_var
  /\ UNCHANGED <<env, input, weight, bias, fwd, bwd, stats, log>>

\* parallel_for returns to batch_norm_cpu, which calls the transform: its
\* pass begins when every worker of the reducer is through
ParTransformBegin ==
  /\ par.phase = "stats"
  /\ joined(par)
  /\ \E chunks \in parallel_for(input.sizes[2]) :
       par' = [par EXCEPT !.phase = "transform", !.pos = Workers(chunks, "apply"),
                          !.access = {}]
  /\ UNCHANGED <<env, input, weight, bias, running_mean, running_var, fwd, bwd, stats, log>>

\* a worker of the transform goes through the loop body of its next feature
ParTransform ==
  /\ par.phase = "transform"
  /\ \E w \in 1..Len(par.pos) :
       /\ par.pos[w].stage # "end"
       /\ par' = transform_stage(par, w, par.pos[w])
  /\ UNCHANGED <<env, input, weight, bias, running_mean, running_var, fwd, bwd, stats, log>>

\* the forward call returns when every worker of the transform is through
ParForwardReturn ==
  /\ par.phase = "transform"
  /\ joined(par)
  /\ fwd' = forward_done(par)
  /\ log' = Append(log, IF par.call.training THEN "train" ELSE "eval")
  /\ par' = returned(par)
  /\ UNCHANGED <<env, input, weight, bias, running_mean, running_var, bwd, stats>>

\* ------------------------------------------------------------------------
\* The pass of batch_norm_backward_cpu_template
\* ------------------------------------------------------------------------
\* the stage after the writes of grad_input
backward_stage_after_input(mask) ==
  IF mask[2] THEN "grad_weight" ELSE IF mask[3] THEN "grad_bias" ELSE "end"

\* the order of the loop body: the sums, the passes over grad_in (two in
\* training mode, one in inference mode), grad_weight_a[f] and grad_bias_a[f]
backward_stage_after(stage, train, mask) ==
  IF stage = "sums"
  THEN IF ~mask[1] THEN backward_stage_after_input(mask)
       ELSE IF train THEN "grad_input_first" ELSE "grad_input"
  ELSE IF stage = "grad_input_first" THEN "grad_input_second"
  ELSE IF stage = "grad_input_second" \/ stage = "grad_input"
  THEN backward_stage_after_input(mask)
  ELSE IF stage = "grad_weight" /\ mask[3] THEN "grad_bias"
  ELSE "end"

backward_next(run, p) ==
  after_stage(p, backward_stage_after(p.stage, fwd.training, run.call.mask), "sums")

\* the reads of the statistics of feature f: the saved ones in training
\* mode, the running ones in inference mode
backward_reads(w, f) ==
  IF fwd.training
  THEN { Read(w, "save_mean", f - 1), Read(w, "save_invstd", f - 1) }
  ELSE { Read(w, "running_mean", element_of(running_mean, f)),
         Read(w, "running_var", element_of(running_var, f)) }

\* mean, invstd, sum and dotp of the feature
backward_sums(run, w, p, mean, invstd) ==
  stepped(run, w,
          backward_next(run, [p EXCEPT !.mean = mean, !.invstd = invstd,
                                       !.sum = Sum(select(run.call.grad_out, p.f)),
                                       !.dotp = feature_dotp(select(input, p.f),
                                                  select(run.call.grad_out, p.f), mean)]),
          p.f, "sums", backward_reads(w, p.f))

\* weight_a[f], 1 when weight is not defined
backward_weight(f) == IF weight.defined THEN conditional_accessor_1d(weight, f) ELSE R(1)

\* a pass over grad_in that leaves the plane v in it
backward_plane(run, w, p, v, acc) ==
  [stepped(run, w, backward_next(run, p), p.f, p.stage, acc) EXCEPT !.planes[p.f] = v]

\* the stage worker w is at, for the feature it is at
backward_stage(run, w, p) ==
  IF p.stage = "sums"
  THEN backward_sums(run, w, p,
         backward_mean(fwd.training, fwd.save_mean, running_mean, p.f),
         backward_invstd(fwd.training, fwd.save_invstd, running_var, fwd.eps, p.f))
  ELSE IF p.stage = "grad_input_first"
  THEN backward_plane(run, w, p,
         grad_in_projection(select(input, p.f), p.mean,
            Div(Mul(Mul(p.dotp, p.invstd), p.invstd), R(reduce_count(input)))),
         {Write(w, "grad_input", p.f - 1)})
  ELSE IF p.stage = "grad_input_second"
  THEN backward_plane(run, w, p,
         grad_in_train(select(run.call.grad_out, p.f),
                       Div(p.sum, R(reduce_count(input))), run.planes[p.f],
                       p.invstd, backward_weight(p.f)),
         {Read(w, "grad_input", p.f - 1), Write(w, "grad_input", p.f - 1)})
  ELSE IF p.stage = "grad_input"
  THEN backward_plane(run, w, p,
         grad_in_eval(select(run.call.grad_out, p.f), p.invstd, backward_weight(p.f)),
         {Write(w, "grad_input", p.f - 1)})
  ELSE IF p.stage = "grad_weight"
  THEN [stepped(run, w, backward_next(run, p), p.f, p.stage,
                {Write(w, "grad_weight", p.f - 1)})
          EXCEPT !.grad_weight[p.f] =
                   feature_grad_weight(p.dotp, p.invstd, backward_weight(p.f))]
  ELSE [stepped(run, w, backward_next(run, p), p.f, p.stage,
                {Write(w, "grad_bias", p.f - 1)})
          EXCEPT !.grad_bias[p.f] = p.sum]

\* what the backward call hands back when its pass is through
backward_done(run) ==
  [ status |-> "ok", impl_index |-> 0, backend |-> "native",
    mask |-> run.call.mask, grad_out |-> run.call.grad_out,
    grad_input |-> IF run.call.mask[1] THEN from_run(run) ELSE NoTensor,
    grad_weight |-> IF run.call.mask[2] THEN Vec(run.grad_weight, TRUE) ELSE Undefined,
    grad_bias |-> IF run.call.mask[3] THEN Vec(run.grad_bias, TRUE) ELSE Undefined ]

\* the arguments of a backward call with the given mask
BackwardCall(mask) ==
  [ training |-> fwd.training, momentum |-> fwd.momentum, eps |-> fwd.eps,
    mask |-> mask, grad_out |-> SquaresGrad ]

\* at::_batch_norm_impl_index_backward with the tag 0 on CPU tensors, after a
\* forward call that returned: the call allocates the gradients the mask
\* selects and enters its pass
ParBackward ==
  /\ no_call_running
  /\ calls < MaxCalls
  /\ ~env.is_cuda
  /\ fwd.status = "ok"
  /\ \E mask \in { <<TRUE, TRUE, TRUE>>, <<TRUE, FALSE, FALSE>>, <<FALSE, TRUE, TRUE>> },
        chunks \in parallel_for(input.sizes[2]) :
       /\ ~empty_like_fails(weight, mask)
       /\ par' = NewRun("backward", BackwardCall(mask), chunks, "sums",
                        [running_mean |-> running_mean, running_var |-> running_var])
  /\ UNCHANGED <<env, input, weight, bias, running_mean, running_var, fwd, bwd, stats, log>>

\* a worker of the backward pass goes through the stage it is at
ParGradients ==
  /\ par.phase = "backward"
  /\ \E w \in 1..Len(par.pos) :
       /\ par.pos[w].stage # "end"
       /\ par' = backward_stage(par, w, par.pos[w])
  /\ UNCHANGED <<env, input, weight, bias, running_mean, running_var, fwd, bwd, stats, log>>

\* the backward call returns when every worker is through
ParBackwardReturn ==
  /\ par.phase = "backward"
  /\ joined(par)
  /\ bwd' = backward_done(par)
  /\ log' = Append(log, "backward")
  /\ par' = returned(par)
  /\ UNCHANGED <<env, input, weight, bias, running_mean, running_var, fwd, stats>>

\* the calls of the CPU engine with their passes followed access by access
NextParallel ==
  \/ ParForward
  \/ ParStats
  \/ ParTransformBegin
  \/ ParTransform
  \/ ParForwardReturn
  \/ ParBackward
  \/ ParGradients
  \/ ParBackwardReturn

\* the running tensors of c features a caller supplies: none, of stride 1,
\* of a larger stride, or expanded from one element
RunningTensor(layout, sample, c) ==
  IF layout = "absent" THEN Undefined
  ELSE IF layout = "expanded" THEN Expanded(sample[1], c)
  ELSE Vec(Prefix(sample, c), layout = "standard")

\* the parallel passes: inputs of one to MaxFeat features, weight and bias
\* present, the running tensors in each layout
InitParallel ==
  \E c \in 1..MaxFeat, layout \in {"absent", "standard", "strided", "expanded"} :
    /\ layout = "expanded" => c = 2
    /\ InitWith(CPUEnv(Vec(Prefix(<<R(2), R(-1), R(3)>>, c), TRUE)),
             CPUInput(<<MaxBatch, c, 1>>, TRUE, Ramp(<<MaxBatch, c, 1>>)),
             Vec(Prefix(<<R(2), R(-1), R(3)>>, c), TRUE),
             Vec(Prefix(<<R(1), R(2), R(-2)>>, c), TRUE),
             RunningTensor(layout, <<R(1), R(0), R(2)>>, c),
             RunningTensor(layout, <<R(3), R(1), R(2)>>, c))

SpecParallel == InitParallel /\ [][NextParallel]_vars

\* ------------------------------------------------------------------------
\* Properties
\* ------------------------------------------------------------------------
\* a step that is a forward call in inference mode, in training mode
EvalStep == log' = Append(log, "eval")
TrainStep == log' = Append(log, "train")

\* the tensors of the caller keep their values over a step
TensorsUnchanged ==
  /\ input' = input
  /\ weight' = weight
  /\ bias' = bias
  /\ running_mean' = running_mean
  /\ running_var' = running_var

\* a forward call that ran no backend and returned nothing
NothingRun(f) ==
  /\ f.impl_index = -1
  /\ f.backend = "none"
  /\ f.path = "none"
  /\ f.output = NoTensor
  /\ f.save_mean = Undefined
  /\ f.save_invstd = Undefined

\* t is defined and its element count is not the number of features
IllSized(t) == t.defined /\ t.numel # input.sizes[2]

\* C1: a forward call in inference mode on the CPU writes none of input,
\* weight, bias, running_mean and running_var, and an inference call that
\* follows an inference call with the same epsilon returns the same output.
C1_InferenceWritesNothing ==
  [][ (EvalStep /\ ~env.is_cuda) =>
        /\ TensorsUnchanged
        /\ (op = "eval" /\ fwd'.eps = fwd.eps) =>
             (fwd'.status = fwd.status /\ fwd'.output = fwd.output) ]_vars

\* two inference calls in a row, both returning an output
C1_Witness ==
  /\ log = <<"eval", "eval">>
  /\ fwd.status = "ok"
  /\ fwd.output.defined
  /\ running_mean.defined /\ running_var.defined

\* C2 (as amended): a forward call in inference mode with running_mean or
\* running_var undefined fails before any backend runs, returns nothing and
\* modifies no tensor; the error is the missing-running-state error, unless
\* running_mean is defined with a wrong element count, whose check comes first
\* and reports the dimension mismatch.
C2_MissingRunningState ==
  [][ (EvalStep /\ (~running_mean.defined \/ ~running_var.defined)) =>
        /\ fwd'.status = IF IllSized(running_mean) THEN "dims_mismatch"
                         ELSE "missing_running_state"
        /\ NothingRun(fwd')
        /\ TensorsUnchanged ]_vars

\* an inference call refused because running_var is undefined
C2_Witness ==
  /\ op = "eval"
  /\ fwd.status = "missing_running_state"
  /\ fwd.arg = "running_var"
  /\ running_mean.defined /\ ~running_var.defined

\* C2 as stated: the error is always the missing-running-state error
C2_AsStated ==
  [][ (EvalStep /\ (~running_mean.defined \/ ~running_var.defined)) =>
        /\ fwd'.status = "missing_running_state"
        /\ NothingRun(fwd')
        /\ TensorsUnchanged ]_vars

\* C3 (as amended): a forward call with a defined running_mean, running_var,
\* weight or bias of a wrong element count fails before any backend runs, in
\* both modes: nothing is returned and no tensor is modified.  The error is
\* the dimension mismatch, unless in inference mode an undefined running
\* tensor is checked before the first ill-sized tensor, which reports the
\* missing running state.
C3_DimsMismatch ==
  [][ ((EvalStep \/ TrainStep)
       /\ (IllSized(running_mean) \/ IllSized(running_var)
           \/ IllSized(weight) \/ IllSized(bias))) =>
        /\ fwd'.status =
             IF EvalStep /\ (~running_mean.defined
                             \/ (~IllSized(running_mean) /\ ~running_var.defined))
             THEN "missing_running_state" ELSE "dims_mismatch"
        /\ NothingRun(fwd')
        /\ TensorsUnchanged ]_vars

\* a training call refused because bias alone has a wrong element count
C3_Witness ==
  /\ op = "train"
  /\ fwd.status = "dims_mismatch"
  /\ fwd.arg = "bias"
  /\ IllSized(bias)
  /\ running_mean.defined /\ running_var.defined

\* C3 as stated: the error is always the dimension mismatch
C3_AsStated ==
  [][ ((EvalStep \/ TrainStep)
       /\ (IllSized(running_mean) \/ IllSized(running_var)
           \/ IllSized(weight) \/ IllSized(bias))) =>
        /\ fwd'.status = "dims_mismatch"
        /\ NothingRun(fwd')
        /\ TensorsUnchanged ]_vars

\* the statistics of feature f of the input, from their definitions: the
\* number n of its elements, the sum of the elements over the batch and the
\* image, the mean, the sum of the squared deviations from the mean and the
\* biased variance
RefCount == input.sizes[1] * input.sizes[3]

RefSum(f) ==
  Sum(Array([n \in 1..input.sizes[1] |->
         Sum(Array([i \in 1..input.sizes[3] |-> input.data[n][f][i]]))]))

RefMean(f) == Div(RefSum(f), R(RefCount))

\* the squared deviation of x from the mean of feature f
RefSquare(x, mean) == Mul(Sub(x, mean), Sub(x, mean))

RefVarSum(f) ==
  Sum(Array([n \in 1..input.sizes[1] |->
         Sum(Array([i \in 1..input.sizes[3] |->
                RefSquare(input.data[n][f][i], RefMean(f))]))]))

RefBiasedVar(f) == Div(RefVarSum(f), R(RefCount))

Features == 1..input.sizes[2]

\* C4: a training-mode forward call on the CPU leaves, for every feature f,
\* running_mean[f] = momentum*mean[f] + (1 - momentum)*running_mean[f] when
\* running_mean is supplied and running_var[f] = momentum*(var_sum[f]/(n - 1))
\* + (1 - momentum)*running_var[f] when running_var is supplied, each whether
\* or not the other is supplied; a tensor that is not supplied stays
\* undefined.  The statistic of the pass itself divides by n.
C4_RunningUpdate ==
  [][ (TrainStep /\ ~env.is_cuda /\ fwd'.status = "ok") =>
        LET m == fwd'.momentum
        IN  /\ running_mean'.defined = running_mean.defined
            /\ running_var'.defined = running_var.defined
            /\ running_mean.defined =>
                 \A f \in Features :
                   running_mean'.data[f] =
                     Add(Mul(m, RefMean(f)), Mul(Sub(R(1), m), running_mean.data[f]))
            /\ running_var.defined =>
                 \A f \in Features :
                   running_var'.data[f] =
                     Add(Mul(m, Div(RefVarSum(f), R(RefCount - 1))),
                         Mul(Sub(R(1), m), running_var.data[f]))
            /\ ~running_mean.defined => running_mean' = running_mean
            /\ ~running_var.defined => running_var' = running_var
            /\ \A f \in Features :
                 (RefBiasedVar(f) # R(0) \/ fwd'.eps # R(0)) =>
                   fwd'.save_invstd.data[f] = InvSqrt(Add(RefBiasedVar(f), fwd'.eps)) ]_vars

\* a training call with running_var alone supplied, on a feature of two or
\* more elements that are not all equal: running_var[1] has left its value 3
\* for momentum*var_sum/(n - 1) + (1 - momentum)*3
C4_Witness ==
  /\ log = <<"train">>
  /\ fwd.status = "ok"
  /\ fwd.momentum = Q(1, 10)
  /\ ~running_mean.defined /\ running_var.defined
  /\ RefCount >= 2
  /\ RefVarSum(1) # R(0)
  /\ running_var.data[1] =
       Add(Mul(Q(1, 10), Div(RefVarSum(1), R(RefCount - 1))), Mul(Q(9, 10), R(3)))
  /\ running_var.data[1] # R(3)

\* C5 (as amended): the reducer returns, for every feature f, mean[f] = the sum
\* of the elements of the feature divided by n, and a value made from the
\* biased variance var_sum[f]/n, var_sum[f] the sum of the squared deviations
\* from mean[f]: the biased variance itself from batch_norm_update_stats_cpu,
\* and from the training forward pass 1/sqrt(var_sum[f]/n + epsilon), or 0
\* when var_sum[f]/n and epsilon are both 0.  The input [[1,2,3],[3,4,5]] of
\* shape [2,3,1] gives mean = [2,3,4] and biased variance = [1,1,1].
C5_Statistics ==
  /\ op = "update_stats" =>
       \A f \in Features :
         /\ stats.mean.data[f] = RefMean(f)
         /\ stats.var.data[f] = RefBiasedVar(f)
  /\ (op = "train" /\ ~env.is_cuda /\ fwd.status = "ok") =>
       \A f \in Features :
         /\ fwd.save_mean.data[f] = RefMean(f)
         /\ fwd.save_invstd.data[f] =
              IF RefBiasedVar(f) = R(0) /\ fwd.eps = R(0) THEN R(0)
              ELSE InvSqrt(Add(RefBiasedVar(f), fwd.eps))
  /\ (op = "update_stats" /\ input = ScenarioInput) =>
       /\ stats.mean.data = <<R(2), R(3), R(4)>>
       /\ stats.var.data = <<R(1), R(1), R(1)>>

\* the statistics-only entry has run on the input of the scenario
C5_Witness ==
  /\ op = "update_stats"
  /\ input = ScenarioInput
  /\ stats.status = "ok"
  /\ stats.mean.data = <<R(2), R(3), R(4)>>
  /\ stats.var.data = <<R(1), R(1), R(1)>>

\* C5 as stated: the training forward pass returns 1/sqrt(var_sum/n + epsilon)
\* for every feature
C5_AsStated ==
  (op = "train" /\ ~env.is_cuda /\ fwd.status = "ok") =>
    \A f \in Features :
      /\ fwd.save_mean.data[f] = RefMean(f)
      /\ fwd.save_invstd.data[f] = InvSqrt(Add(RefBiasedVar(f), fwd.eps))

\* the backend each tag of the forward selector stands for
TagBackend(tag) ==
  CASE tag = 0 -> "native"
    [] tag = 1 -> "cudnn"
    [] tag = 2 -> "miopen"
    [] OTHER -> "none"

ForwardTags == {0, 1, 2}

\* C6: the tag a forward call returns is 0, 1 or 2 and names the backend that
\* ran it (0 native, 1 cuDNN, 2 MIOpen); a backward call routes by its tag
\* alone, to the backend the tag names, so with the tag of the forward call
\* it runs the backend that ran the forward call.
C6_TagsInLockStep ==
  /\ fwd.status = "ok" =>
       /\ fwd.impl_index \in ForwardTags
       /\ fwd.backend = TagBackend(fwd.impl_index)
  /\ op = "backward" =>
       /\ bwd.backend = TagBackend(bwd.impl_index)
       /\ bwd.impl_index = fwd.impl_index => bwd.backend = fwd.backend

\* a backward call with the tag of a forward call that MIOpen ran, on an input
\* of the Half type with no running state
C6_Witness ==
  /\ op = "backward"
  /\ fwd.backend = "miopen"
  /\ bwd.impl_index = fwd.impl_index
  /\ bwd.backend = "miopen"
  /\ env.in_type = "Half"
  /\ ~running_mean.defined

\* C7: a backward call with a tag other than 0, 1 and 2 fails: no backward
\* implementation runs and no gradient is returned; with the tag a forward
\* call returned this failure does not occur.
C7_UnsupportedTag ==
  op = "backward" =>
    /\ bwd.impl_index \notin ForwardTags =>
         /\ bwd.status = "unsupported_impl_index"
         /\ bwd.backend = "none"
         /\ bwd.grad_input = NoTensor
         /\ bwd.grad_weight = Undefined
         /\ bwd.grad_bias = Undefined
    /\ bwd.impl_index = fwd.impl_index => bwd.status # "unsupported_impl_index"
    /\ bwd.impl_index \in ForwardTags => bwd.status # "unsupported_impl_index"

\* a backward call with the tag 3 has failed
C7_Witness ==
  /\ op = "backward"
  /\ bwd.impl_index = 3
  /\ bwd.status = "unsupported_impl_index"
  /\ fwd.impl_index = 2

\* the two preconditions of the selector, on the arguments of the last forward call
CuDNNPrecondition ==
  use_cudnn(env, input, weight, bias, running_mean, running_var, fwd.training,
            fwd.cudnn_enabled)

MIOpenPrecondition ==
  use_miopen(env, input, weight, bias, running_mean, running_var, fwd.training)

ForwardDone == op \in {"train", "eval"} /\ fwd.status = "ok"

OnesVec == Vec(Array([f \in Features |-> R(1)]), TRUE)
ZerosVec == Vec(Array([f \in Features |-> R(0)]), TRUE)

BackwardStep == log' = Append(log, "backward")

GeneralOutput ==
  general_path(input, weight, bias, Undefined, Undefined, running_mean, running_var,
               FALSE, fwd.eps)

Offsets == 0..(input.sizes[1] * input.sizes[2] * input.sizes[3] - 1)

FastPathDone == op = "eval" /\ ~env.is_cuda /\ fwd.status = "ok" /\ fwd.path = "fast"

\* every offset of the output is written by one iteration of the loops
WrittenOnce ==
  /\ \A k \in Offsets : Cardinality(fast_writers(input, k)) = 1
  /\ \A n \in 1..input.sizes[1], c \in Features, i \in 1..input.sizes[3] :
       fwd.output.data[n][c][i] # Uninit

CPUBackwardStep ==
  /\ BackwardStep
  /\ ~env.is_cuda
  /\ bwd'.impl_index = 0
  /\ bwd'.status = "ok"

\* the sum of the gradient g over feature f
GradSum(g, f) ==
  Sum(Array([n \in 1..input.sizes[1] |->
         Sum(Array([i \in 1..input.sizes[3] |-> g.data[n][f][i]]))]))

\* the sum of (input - mean) * g over feature f
GradDotp(g, f, mean) ==
  Sum(Array([n \in 1..input.sizes[1] |->
         Sum(Array([i \in 1..input.sizes[3] |->
                Mul(Sub(input.data[n][f][i], mean), g.data[n][f][i])]))]))

\* weight[f], 1 when weight is absent
WeightOf(f) == IF weight.defined THEN weight.data[f] ELSE R(1)

\* ((go - sum/n) - (x - mean)*dotp*invstd^2/n) * invstd * w
TrainGradient(go, x, sum, dotp, mean, invstd, w) ==
  Mul(Mul(Sub(Sub(go, Div(sum, R(RefCount))),
              Div(Mul(Mul(Sub(x, mean), dotp), Mul(invstd, invstd)), R(RefCount))),
          invstd), w)

\* C11: a backward call in training mode that returns an input gradient
\* returns, for every element of every feature f, ((grad_output - sum/n) -
\* (input - mean[f])*dotp*invstd[f]^2/n) * invstd[f] * weight[f], with sum and
\* dotp taken over feature f and mean and invstd the statistics the forward
\* call saved; nothing of the first pass over grad_input is left in it.
C11_TrainingGradient ==
  [][ (CPUBackwardStep /\ fwd.training /\ bwd'.mask[1]) =>
        /\ bwd'.grad_input.defined
        /\ bwd'.grad_input.sizes = input.sizes
        /\ \A f \in Features :
             LET mean == fwd.save_mean.data[f]
                 invstd == fwd.save_invstd.data[f]
                 sum == GradSum(bwd'.grad_out, f)
                 dotp == GradDotp(bwd'.grad_out, f, mean)
             IN  \A n \in 1..input.sizes[1], i \in 1..input.sizes[3] :
                   bwd'.grad_input.data[n][f][i] =
                     TrainGradient(bwd'.grad_out.data[n][f][i], input.data[n][f][i],
                                   sum, dotp, mean, invstd, WeightOf(f)) ]_vars

\* a training call on the largest input with a weight, and the backward call
\* after it that returned all three gradients, the one of the input not zero
\* everywhere
C11_Witness ==
  /\ log = <<"train", "backward">>
  /\ input.sizes = <<MaxBatch, MaxFeat, MaxImage>>
  /\ weight.defined
  /\ fwd.eps = Q(1, 4)
  /\ bwd.status = "ok" /\ bwd.impl_index = 0
  /\ bwd.mask = <<TRUE, TRUE, TRUE>>
  /\ bwd.grad_input.defined
  /\ \E f \in Features : bwd.grad_input.data[1][f][1] # R(0)

\* C12: a backward call in inference mode that returns an input gradient
\* returns, for every element of every feature f, grad_output * invstd[f] *
\* weight[f] with invstd[f] = 1/sqrt(running_var[f] + eps) from the running
\* state: no term in sum, dotp, n or the input, and the statistics a forward
\* call saves are not read (an inference call saves none).
C12_InferenceGradient ==
  [][ (CPUBackwardStep /\ ~fwd.training /\ bwd'.mask[1]) =>
        /\ bwd'.grad_input.defined
        /\ bwd'.grad_input.sizes = input.sizes
        /\ ~fwd.save_mean.defined /\ ~fwd.save_invstd.defined
        /\ \A f \in Features :
             \A n \in 1..input.sizes[1], i \in 1..input.sizes[3] :
               bwd'.grad_input.data[n][f][i] =
                 Mul(Mul(bwd'.grad_out.data[n][f][i],
                         InvSqrt(Add(running_var.data[f], fwd.eps))),
                     WeightOf(f)) ]_vars

\* an inference call on the largest input with a weight, and the backward
\* call after it that returned all three gradients, the one of the input
\* finite and not zero
C12_Witness ==
  /\ log = <<"eval", "backward">>
  /\ input.sizes = <<MaxBatch, MaxFeat, MaxImage>>
  /\ weight.defined
  /\ ~fwd.save_invstd.defined
  /\ bwd.status = "ok" /\ bwd.impl_index = 0
  /\ bwd.mask = <<TRUE, TRUE, TRUE>>
  /\ bwd.grad_input.defined
  /\ \E f \in Features :
       IsFin(bwd.grad_input.data[1][f][1]) /\ bwd.grad_input.data[1][f][1] # R(0)

\* the mean and the inverse standard deviation of feature f a backward call
\* works with: the saved ones after a training call, those of the running
\* state after an inference call
StepMean(f) == IF fwd.training THEN fwd.save_mean.data[f] ELSE running_mean.data[f]

StepInvStd(f) ==
  IF fwd.training THEN fwd.save_invstd.data[f]
  ELSE InvSqrt(Add(running_var.data[f], fwd.eps))

\* C13: a backward call that returns grad_weight returns dotp[f] * invstd[f]
\* for every feature f, and one that returns grad_bias returns sum[f], with
\* sum[f] the sum of grad_output and dotp[f] the sum of (input - mean[f]) *
\* grad_output over feature f, in training mode with the saved statistics and
\* in inference mode with those of the running state; the weight enters
\* neither value.
C13_ParameterGradients ==
  [][ CPUBackwardStep =>
        /\ bwd'.mask[2] =>
             /\ bwd'.grad_weight.defined
             /\ \A f \in Features :
                  bwd'.grad_weight.data[f] =
                    Mul(GradDotp(bwd'.grad_out, f, StepMean(f)), StepInvStd(f))
        /\ bwd'.mask[3] =>
             /\ bwd'.grad_bias.defined
             /\ \A f \in Features :
                  bwd'.grad_bias.data[f] = GradSum(bwd'.grad_out, f) ]_vars

\* an inference call on the largest input under a weight other than 1, and the
\* backward call after it that returned both parameter gradients, with a
\* grad_weight that is not zero
C13_Witness ==
  /\ log = <<"eval", "backward">>
  /\ input.sizes = <<MaxBatch, MaxFeat, MaxImage>>
  /\ weight.defined /\ weight.data[1] = R(2)
  /\ bwd.status = "ok" /\ bwd.impl_index = 0
  /\ bwd.mask[2] /\ bwd.mask[3]
  /\ bwd.grad_weight.defined /\ bwd.grad_bias.defined
  /\ IsFin(bwd.grad_weight.data[1]) /\ bwd.grad_weight.data[1] # R(0)

\* C14 as stated: for each of the 8 masks, with weight present or absent, the
\* portable backward call returns grad_input defined iff mask[0], grad_weight
\* defined iff mask[1] and grad_bias defined iff mask[2], a returned gradient
\* having one entry per input element (grad_input) or per feature (the other
\* two).
C14_AsStated ==
  [][ (BackwardStep /\ ~env.is_cuda /\ bwd'.impl_index = 0) =>
        /\ bwd'.status = "ok"
        /\ bwd'.grad_input.defined <=> bwd'.mask[1]
        /\ bwd'.grad_weight.defined <=> bwd'.mask[2]
        /\ bwd'.grad_bias.defined <=> bwd'.mask[3]
        /\ bwd'.mask[1] => bwd'.grad_input.sizes = input.sizes
        /\ bwd'.mask[2] => bwd'.grad_weight.numel = input.sizes[2]
        /\ bwd'.mask[3] => bwd'.grad_bias.numel = input.sizes[2] ]_vars

\* ------------------------------------------------------------------------
\* The divisor of the unbiased variance
\* ------------------------------------------------------------------------
\* C15 as stated: whenever a forward call in training mode folds the unbiased
\* variance into running_var, the number n of elements reduced per feature is
\* at least 2, so that the divisor n - 1 is not zero.
C15_AsStated ==
  [][ (TrainStep /\ ~env.is_cuda /\ fwd'.status = "ok" /\ running_var.defined) =>
        RefCount >= 2 ]_vars

\* a training call with n = 1 and running_var supplied has run: every element
\* of running_var is now the NaN of 0/0
C15_Witness ==
  /\ log = <<"train">>
  /\ fwd.status = "ok"
  /\ RefCount = 1
  /\ running_var.defined
  /\ \A f \in Features : IsNaN(running_var.data[f])

\* ------------------------------------------------------------------------
\* The degenerate case of the fast path
\* ------------------------------------------------------------------------
\* C18 as stated: a forward call in inference mode on a contiguous input with
\* one batch element and image_size 1 does not run the fast path, which
\* allocates and fills the arrays alpha and beta, but the general path.
C18_AsStated ==
  [][ (EvalStep /\ ~env.is_cuda /\ fwd'.status = "ok" /\ input.contig
       /\ input.sizes[1] = 1 /\ input.sizes[3] = 1) =>
        fwd'.path = "general" ]_vars

\* an inference call on a contiguous input with one batch element and
\* image_size 1 has run the fast path
C18_Witness ==
  /\ log = <<"eval">>
  /\ input.contig
  /\ input.sizes = <<1, MaxFeat, 1>>
  /\ fwd.status = "ok"
  /\ fwd.path = "fast"
  /\ fwd.output.defined

\* ------------------------------------------------------------------------
\* The running state in training mode
\* ------------------------------------------------------------------------
\* what a training call on the tensors of the step returns when it is given
\* no running state and the momentum 1
WithoutRunningState(eps) ==
  batch_norm_cpu(input, weight, bias, Undefined, Undefined, TRUE, R(1), eps)

\* C19: a forward call in training mode on the CPU returns the output, the
\* saved mean and the saved inverse standard deviation that the call with the
\* same input, weight, bias and epsilon returns under any other running state
\* and momentum: those of the call without running state and with momentum 1,
\* and those of the training call before it, which left another running
\* state; it never runs the fast path.
C19_TrainingIgnoresRunningState ==
  [][ (TrainStep /\ ~env.is_cuda /\ fwd'.status = "ok") =>
        /\ fwd'.path = "general"
        /\ fwd'.output = WithoutRunningState(fwd'.eps).output
        /\ fwd'.save_mean = WithoutRunningState(fwd'.eps).save_mean
        /\ fwd'.save_invstd = WithoutRunningState(fwd'.eps).save_invstd
        /\ (op = "train" /\ fwd.status = "ok" /\ fwd.eps = fwd'.eps) =>
             /\ fwd'.output = fwd.output
             /\ fwd'.save_mean = fwd.save_mean
             /\ fwd'.save_invstd = fwd.save_invstd ]_vars

\* two training calls in a row with the same epsilon on contiguous tensors,
\* the second of which found the running state the first had rewritten
C19_Witness ==
  /\ log = <<"train", "train">>
  /\ input.contig /\ input.sizes = <<MaxBatch, MaxFeat, MaxImage>>
  /\ running_mean.defined /\ running_mean.contig
  /\ running_var.defined /\ running_var.contig
  /\ fwd.status = "ok" /\ fwd.path = "general"
  /\ running_mean.data # fwd.save_mean.data
  /\ running_mean.data # Prefix(<<R(1), R(0), R(2)>>, MaxFeat)

\* ------------------------------------------------------------------------
\* The order and the independence of the parallel passes
\* ------------------------------------------------------------------------
\* a pass is in progress
Running == par.phase \in {"stats", "transform", "backward"}

\* the step takes feature f through the given stage
NewlyDone(f, stage) ==
  /\ Running
  /\ stage \in par'.done[f]
  /\ stage \notin par.done[f]

\* the stages of the update of the running state
UpdateStages ==
  (IF running_mean.defined THEN {"running_mean_load", "running_mean_store"} ELSE {})
  \cup (IF running_var.defined THEN {"running_var_load", "running_var_store"} ELSE {})

\* the statistics of feature f are stored and final in the run
StatsFinal(run, f) ==
  /\ {"mean", "var"} \subseteq run.done[f]
  /\ run.save_mean[f] = RefMean(f)
  /\ run.save_invstd[f] = InvStd(RefBiasedVar(f), run.call.eps)

\* C16: in a training forward call, under every cut of the features into
\* chunks and every interleaving of the workers, the variance pass of feature
\* f begins with the mean of f final and stored, the update of the running
\* state of f with the variance pass of f through, and the transform of any
\* feature with the statistics and the updates of every feature through; the
\* backward pass reads the statistics of f after the forward call returned
\* them final.
C16_StageOrder ==
  [][ \A f \in Features :
        /\ NewlyDone(f, "var") =>
             /\ "mean" \in par.done[f]
             /\ par.save_mean[f] = RefMean(f)
             /\ \E w \in 1..Len(par.pos) :
                  par.pos[w].f = f /\ par.pos[w].stage = "var"
                  /\ par.pos[w].mean = RefMean(f)
        /\ (\E s \in UpdateStages : NewlyDone(f, s)) => StatsFinal(par, f)
        /\ (NewlyDone(f, "apply") /\ par.call.training) =>
             \A g \in Features :
               StatsFinal(par, g) /\ UpdateStages \subseteq par.done[g]
        /\ (NewlyDone(f, "sums") /\ fwd.training) =>
             /\ fwd.status = "ok"
             /\ fwd.save_mean.data[f] = RefMean(f)
             /\ fwd.save_invstd.data[f] = InvStd(RefBiasedVar(f), fwd.eps)
             /\ \E w \in 1..Len(par'.pos) :
                  par'.pos[w].mean = RefMean(f)
                  /\ par'.pos[w].invstd = InvStd(RefBiasedVar(f), fwd.eps) ]_vars

\* the backward pass after a training call, one worker per feature: the last
\* worker is through its sums while the first has not begun
C16_Witness ==
  /\ par.phase = "backward"
  /\ fwd.training /\ fwd.status = "ok"
  /\ input.sizes[2] = MaxFeat
  /\ Len(par.pos) = MaxFeat
  /\ running_mean.defined /\ running_var.defined
  /\ par.pos[1].stage = "sums"
  /\ "sums" \in par.done[MaxFeat]

\* the workers whose chunk holds feature f
WorkersOf(f) == { w \in 1..Len(par.pos) : par.pos[w].begin <= f /\ f <= par.pos[w].end }

\* the element of the tensor of the given name that belongs to feature f
SlotOf(name, f) ==
  IF name = "running_mean" THEN element_of(running_mean, f)
  ELSE IF name = "running_var" THEN element_of(running_var, f)
  ELSE f - 1

\* in the pass in progress every feature has one worker, an element is
\* written by the worker of its feature only, and no element one worker
\* writes is read or written by another
PassRaceFree ==
  /\ \A f \in Features : Cardinality(WorkersOf(f)) = 1
  /\ \A x \in par.access :
       x[1] = "write" =>
         \A f \in Features : SlotOf(x[2], f) = x[3] => WorkersOf(f) = {x[4]}
  /\ \A x \in par.access, y \in par.access : ~conflict(x, y)
  /\ ~par.raced

\* the forward call that returned left what the loops run feature after
\* feature in one thread leave: r from the running state before the call
ForwardAsSequential(r) ==
  /\ fwd.output = r.output
  /\ fwd.save_mean = r.save_mean
  /\ fwd.save_invstd = r.save_invstd
  /\ running_mean.data = r.running_mean.data
  /\ running_var.data = r.running_var.data

BackwardAsSequential(r) ==
  /\ bwd.grad_input = r.grad_input
  /\ bwd.grad_weight = r.grad_weight
  /\ bwd.grad_bias = r.grad_bias

\* the call that returned was free of races and left the sequential result
ResultAsSequential ==
  /\ ~par.raced
  /\ IF log[Len(log)] = "backward"
     THEN BackwardAsSequential(
            batch_norm_backward_cpu_template(par.call.grad_out, input, weight,
              running_mean, running_var, fwd.save_mean, fwd.save_invstd,
              fwd.training, fwd.eps, par.call.mask))
     ELSE ForwardAsSequential(
            batch_norm_cpu(input, weight, bias, par.before.running_mean,
              par.before.running_var, par.call.training, par.call.momentum,
              par.call.eps))

RaceFreedom ==
  /\ Running => PassRaceFree
  /\ par.phase = "returned" => ResultAsSequential

\* the running tensors reach a different element at every feature
DistinctElements(t) ==
  \A f \in Features, g \in Features : f # g => element_of(t, f) # element_of(t, g)

\* C17 (as amended): when running_mean and running_var, where given, reach a
\* different element at every feature, then in each pass every feature has
\* exactly one worker, every element written for feature f is written by the
\* worker of f only and read by no other worker, and the call returns what
\* the sequential loops return, under every cut into chunks and every
\* interleaving of the workers.
C17_RaceFreeOnDistinctElements ==
  (DistinctElements(running_mean) /\ DistinctElements(running_var)) => RaceFreedom

\* a training call with several workers returned after its two passes, its
\* running tensors of distinct elements updated
C17_Witness ==
  /\ par.phase = "returned"
  /\ par.call.training
  /\ log[Len(log)] = "train"
  /\ input.sizes[2] = MaxFeat
  /\ running_mean.defined /\ ~running_mean.contig
  /\ DistinctElements(running_mean) /\ DistinctElements(running_var)
  /\ running_mean # par.before.running_mean
  /\ \A f \in Features : {"mean", "var", "running_var_store", "apply"} \subseteq par.done[f]

\* C17 (as stated): the passes are free of races and return the sequential
\* result whatever the running tensors are.
C17_AsStated == RaceFreedom
====
